---- MODULE Spec2Model ----
(***************************************************************************)
(* WikiTextParser.parse (src/tinywikitext/parser.py) as a state machine    *)
(* over the token stream, together with the compiler backends that consume *)
(* its events (compiler.py, to_html.py, to_tsearch.py).                    *)
(*                                                                         *)
(* One action per token type the lexer (lextokens.py) produces, doing what  *)
(* its case of the "match token.type" statement does, plus the code that   *)
(* runs after the token loop (DocumentEnd).  A text token has no case and  *)
(* changes nothing.  No rule of the lexer produces definition_term,        *)
(* definition_def, linkmacro or other_characters tokens, and t_link takes  *)
(* every [[...]] before t_macro is tried, so these have no action.         *)
(* Source offsets are counted in units of one token each: a token read at  *)
(* offset n has lexpos n, and the source of a raw macro takes one offset   *)
(* per unit it holds.                                                      *)
(***************************************************************************)
EXTENDS Naturals, Integers, Sequences, FiniteSets, TLC

VARIABLES
    pc,                    \* "run" in the token loop, "done" after end_document, "error" after a raise
    error,                 \* the exception that left parse(), NoError while there is none
    events,                \* the compiler methods called so far, in call order
    backend,               \* which compiler consumes the events: "base", "html", "tsearch"
    procedural_stack,      \* self.procedural_stack: sequence of ProceduralStart
    current_heading_level, \* self.current_heading_level: None or <<level, location>>
    previous_list_item,    \* self.previous_list_item: None or a signature
    current_list_item,     \* self.current_list_item: None or a signature
    tag_macro_stack,       \* self.tag_macro_stack: sequence of (macro, lexpos)
    in_definition,         \* self.in_definition: None, "term", "def" or "list"
    in_paragraph,          \* self.in_paragraph
    current_list,          \* HTMLCompiler.current_list: None or <<ListManager>>
    list_output,           \* the writer calls ListManager.finalize has made, in call order
    lexpos,                \* tokenizer cursor: number of source units consumed
    bol,                   \* the cursor stands at a line start (offset 0 or right after "\n")
    peek,                  \* what the lexer rules and look-aheads already fix about the next token
    last_token,            \* offset of the token the loop variable holds, -1 before the first
    remainder,             \* self.lexer.remainder as far as a macro call has read it, in source units
    location_reading       \* what self.location of the tinymarkup Parser base class points at

vars == <<pc, error, events, backend, procedural_stack, current_heading_level,
          previous_list_item, current_list_item, tag_macro_stack, in_definition,
          in_paragraph, current_list, list_output, lexpos, bol, peek, last_token,
          remainder, location_reading>>

----------------------------------------------------------------------------
(* Bounds of the model. *)

\* Tokens the source can be made of freely, one after the other; the marker
\* a look-ahead has seen behind the last of them is tokenized as well.
MaxTokens == 4
\* Longest source, in units: the text a macro call reads behind the last
\* such token is one unit, and is tokenized as well.
MaxSource == 4
\* Longest list item signature ([*#]+ has no upper limit).
MaxSig == 2
\* Longest newline run of one eols token (the rule has no upper limit).
MaxNl == 3
\* Heading levels tried (the rules allow 1..6).
MaxLevel == 2
\* Most items of a list block handed to the list assembler on its own.
MaxItems == 5

----------------------------------------------------------------------------
(* Values. *)

\* Python's None for the optional sequence-valued fields.
None == <<>>

\* self.in_definition = None
NoDefinition == "none"

NoError == [exc |-> "", msg |-> "", location |-> -1, name |-> ""]

Backends == {"base", "html", "tsearch"}

\* self.location and self.lexer.location are properties of tinymarkup's
\* Parser and lexer wrapper, a library outside this repository; parser.py
\* only stores and passes on what they return.  They point at the token the
\* loop holds ("token") or at the tokenizer's cursor, which stands right
\* behind that token ("cursor"); which of the two is the same for all of a
\* parse.
LocationReadings == {"token", "cursor"}

\* [\*#]+ , up to MaxSig characters
Signatures == UNION {[1..n -> {"*", "#"}] : n \in 1..MaxSig}

Levels == 1..MaxLevel

\* Whitespace captured around a comment (\s*), as characters: none, a blank,
\* a line end, a blank line, a blank line and the indentation after it.
CommentWs == {<<>>, <<" ">>, <<"\n">>, <<"\n", "\n">>, <<"\n", "\n", " ">>}

\* The characters taken by the catch-all rule t_text that the model tells
\* apart: the definition markers and any other one.
TextChars == {";", ":", "."}

\* The macros of macro.py, by protocol and declared context.
macro_library ==
    [blockquote |-> [protocol |-> "tag", context |-> "block"],
     s          |-> [protocol |-> "tag", context |-> "inline"],
     pre        |-> [protocol |-> "raw", context |-> "block"]]

\* compiler.context.macro_library
MacroLibrary == macro_library

MacroNames == DOMAIN MacroLibrary

Environments == {"block", "inline"}

\* Tag names a source can hold: those of the library and one that is in no library.
TagNames == DOMAIN macro_library \cup {"marquee"}

\* One call of a compiler method: its name and its arguments (a heading
\* level, a list item signature, a macro name or a piece of text, the source
\* handed to a raw macro).
Ev(name) ==
    [name |-> name, level |-> 0, sig |-> <<>>, arg |-> "", source |-> <<>>, params |-> <<>>]
EvLevel(name, level) == [Ev(name) EXCEPT !.level = level]
EvSig(name, sig) == [Ev(name) EXCEPT !.sig = sig]
EvMacro(name, macro) == [Ev(name) EXCEPT !.arg = macro]
EvText(name, text) == [Ev(name) EXCEPT !.arg = text]
\* compiler.process_raw_macro(macro, source, params)
EvRaw(name, macro, source) == [Ev(name) EXCEPT !.arg = macro, !.source = source]
\* compiler.process_link_macro(macro, params)
EvLink(name, macro, params) == [Ev(name) EXCEPT !.arg = macro, !.params = params]
\* compiler.link(text, target)
EvLinkTo(name, text, target) == [Ev(name) EXCEPT !.source = text, !.params = target]

----------------------------------------------------------------------------
(* The parser object as one value, so that the nested functions of parse() *)
(* can be written as operators from state to state.  moved is how far the  *)
(* handler of the current token has moved self.lexer.lexpos.               *)

Self ==
    [pc |-> pc, error |-> error, events |-> events, backend |-> backend,
     procedural_stack |-> procedural_stack,
     current_heading_level |-> current_heading_level,
     previous_list_item |-> previous_list_item,
     current_list_item |-> current_list_item,
     tag_macro_stack |-> tag_macro_stack,
     in_definition |-> in_definition,
     in_paragraph |-> in_paragraph,
     current_list |-> current_list,
     list_output |-> list_output,
     moved |-> 0]

\* The state a handler leaves behind becomes the next state.
Commit(s) ==
    /\ pc' = s.pc
    /\ error' = s.error
    /\ events' = s.events
    /\ backend' = s.backend
    /\ procedural_stack' = s.procedural_stack
    /\ current_heading_level' = s.current_heading_level
    /\ previous_list_item' = s.previous_list_item
    /\ current_list_item' = s.current_list_item
    /\ tag_macro_stack' = s.tag_macro_stack
    /\ in_definition' = s.in_definition
    /\ in_paragraph' = s.in_paragraph
    /\ current_list' = s.current_list
    /\ list_output' = s.list_output
    /\ UNCHANGED location_reading

\* An exception has been raised and is propagating.
Failed(s) == s.pc = "error"

\* raise exc(msg, location=location)
Raise(s, exc, msg, location, name) ==
    [s EXCEPT !.pc = "error",
              !.error = [exc |-> exc, msg |-> msg, location |-> location, name |-> name]]

\* Sequencing: the next statement runs only if the previous one did not raise.
Then(s, Op(_)) == IF Failed(s) THEN s ELSE Op(s)

\* compiler.<method>(...)
Emit(s, ev) == [s EXCEPT !.events = Append(@, ev)]

----------------------------------------------------------------------------
(* HTMLCompiler's list assembler (to_html.py).  A List is a record with    *)
(* its marker type and its items; an Item is a leaf with the buffer that   *)
(* collects what is written while it is the current item.  A buffer is a   *)
(* fresh io.StringIO(); it is named by the order of its creation.          *)

\* Item(parent); output is the item's new buffer
Item(output) == [type |-> "Item", items |-> <<>>, output |-> output]

\* List(parent, type)
List(type) == [type |-> type, items |-> <<>>]

\* List.create_item
create_item(list, output) == [list EXCEPT !.items = Append(@, Item(output))]

\* The result of a call that may fail an assertion.
Asserted(node) == [ok |-> TRUE, node |-> node]
AssertionError == [ok |-> FALSE, node |-> Item(0)]

\* Mutant of ListBeginItem: a new nested list takes the marker type of the
\* list it is created in.
RECURSIVE ListBeginItem_ParentType(_, _, _)
ListBeginItem_ParentType(list, signature, output) ==
    IF signature[1] # list.type
    THEN AssertionError
    ELSE LET rest == Tail(signature)
             n == Len(list.items)
         IN  IF rest = <<>>
             THEN Asserted(create_item(list, output))
             ELSE IF n = 0 \/ list.items[n].type = "Item"
                  THEN Asserted([list EXCEPT !.items = Append(@, create_item(List(list.type), output))])
                  ELSE LET sub == ListBeginItem_ParentType(list.items[n], rest, output)
                       IN  IF sub.ok
                           THEN Asserted([list EXCEPT !.items[n] = sub.node])
                           ELSE AssertionError

\* List.get_list_for(signature) followed by create_item() on the list it
\* returns; the value is the receiver after the call.
RECURSIVE ListBeginItem(_, _, _)
ListBeginItem(list, signature, output) ==
    IF signature[1] # list.type
    THEN AssertionError
    ELSE LET rest == Tail(signature)
             n == Len(list.items)
         IN  IF rest = <<>>
             THEN Asserted(create_item(list, output))
             ELSE IF n = 0 \/ list.items[n].type = "Item"
                  THEN Asserted([list EXCEPT !.items = Append(@, create_item(List(rest[1]), output))])
                  ELSE LET sub == ListBeginItem(list.items[n], rest, output)
                       IN  IF sub.ok
                           THEN Asserted([list EXCEPT !.items[n] = sub.node])
                           ELSE AssertionError

\* ListManager(compiler): no root yet
ListManager == [root |-> None]

RECURSIVE Items(_)
\* Number of Item leaves of a tree.
Items(node) ==
    IF node.type = "Item"
    THEN 1
    ELSE LET sub[i \in 0..Len(node.items)] ==
                 IF i = 0 THEN 0 ELSE sub[i - 1] + Items(node.items[i])
         IN  sub[Len(node.items)]

\* ListManager.begin_list_item(signature); the value is the manager after
\* the call.
ManagerBeginItem(manager, signature) ==
    IF manager.root = None
    THEN IF Len(signature) = 1
         THEN Asserted([root |-> <<create_item(List(signature[1]), 1)>>])
         ELSE AssertionError
    ELSE LET r == ListBeginItem(manager.root[1], signature, Items(manager.root[1]) + 1)
         IN  IF r.ok THEN Asserted([root |-> <<r.node>>]) ELSE AssertionError

\* HTMLCompiler.begin_list_item(signature); location is self.parser.location
HtmlBeginListItem(s, signature, location) ==
    LET manager == IF s.current_list = None THEN ListManager ELSE s.current_list[1]
        r == ManagerBeginItem(manager, signature)
    IN  IF r.ok
        THEN [s EXCEPT !.current_list = <<r.node>>]
        ELSE Raise([s EXCEPT !.current_list = <<manager>>],
                   "InternalError", "List mechanism failed internally.", location, "")

\* compiler.begin_list_item(signature), by backend
CompilerBeginListItem(s, signature, location) ==
    LET s1 == Emit(s, EvSig("begin_list_item", signature))
    IN  IF s.backend = "html" THEN HtmlBeginListItem(s1, signature, location) ELSE s1

\* One call of the compiler's writer: open(tag), close(tag), print() or
\* print(value, end="") with the contents of an item's buffer.
WriterOpen(tag) == [op |-> "open", tag |-> tag, output |-> 0]
WriterClose(tag) == [op |-> "close", tag |-> tag, output |-> 0]
WriterPrintLine == [op |-> "print_line", tag |-> "", output |-> 0]
WriterPrint(output) == [op |-> "print", tag |-> "", output |-> output]

\* Item.write_to(compiler)
ItemWriteTo(item) == <<WriterPrint(item.output)>>

\* List.tag
ListTag(list) == [type \in {"*", "#"} |-> IF type = "*" THEN "ul" ELSE "ol"][list.type]

\* Mutant of ListWriteTo: the li of an item is closed right after the item,
\* whatever follows it.
RECURSIVE ListWriteTo_ClosesEachItem(_)
ListWriteTo_ClosesEachItem(list) ==
    LET n == Len(list.items)
        body[i \in 0..n] ==
            IF i = 0
            THEN <<>>
            ELSE LET item == list.items[i]
                 IN  body[i - 1]
                     \o (IF item.type = "Item" THEN <<WriterOpen("li")>> ELSE <<WriterPrintLine>>)
                     \o (IF item.type = "Item"
                         THEN ItemWriteTo(item)
                         ELSE ListWriteTo_ClosesEachItem(item))
                     \o (IF item.type = "Item" THEN <<WriterClose("li")>> ELSE <<>>)
    IN  <<WriterOpen(ListTag(list))>> \o body[n] \o <<WriterClose(ListTag(list))>>

\* List.write_to(compiler): the writer calls it makes, in call order.
RECURSIVE ListWriteTo(_)
ListWriteTo(list) ==
    LET n == Len(list.items)
        body[i \in 0..n] ==
            IF i = 0
            THEN <<>>
            ELSE LET item == list.items[i]
                     nitem == IF i < n THEN <<list.items[i + 1]>> ELSE None
                 IN  body[i - 1]
                     \o (IF item.type = "Item" THEN <<WriterOpen("li")>> ELSE <<WriterPrintLine>>)
                     \o (IF item.type = "Item" THEN ItemWriteTo(item) ELSE ListWriteTo(item))
                     \o (IF nitem = None \/ nitem[1].type = "Item"
                         THEN <<WriterClose("li")>>
                         ELSE <<>>)
    IN  <<WriterOpen(ListTag(list))>> \o body[n] \o <<WriterClose(ListTag(list))>>

\* ListManager.finalize()
ManagerFinalize(manager) == ListWriteTo(manager.root[1])

\* HTMLCompiler.finalize_list()
HtmlFinalizeList(s) ==
    IF s.current_list = None
    THEN Raise(s, "AttributeError", "'NoneType' object has no attribute 'finalize'", -1, "")
    ELSE [s EXCEPT !.list_output = @ \o ManagerFinalize(s.current_list[1]),
                   !.current_list = None]

\* compiler.finalize_list(), by backend
CompilerFinalizeList(s) ==
    LET s1 == Emit(s, Ev("finalize_list"))
    IN  IF s.backend = "html" THEN HtmlFinalizeList(s1) ELSE s1

----------------------------------------------------------------------------
(* The functions nested in WikiTextParser.parse.                            *)

\* ProceduralStart(name, location)
ProceduralStart(name, location) == [name |-> name, location |-> location]

\* self.current_procedural_name
current_procedural_name(s) ==
    IF s.procedural_stack # <<>>
    THEN s.procedural_stack[Len(s.procedural_stack)].name
    ELSE "None"

\* self.location while the loop holds the token read at offset token: the
\* position of that token or of the tokenizer's cursor right behind it.
self_location(token) == IF location_reading = "cursor" THEN token + 1 ELSE token

\* begin_procedural(name); token is the lexpos of the loop's current token
begin_procedural(s, name, token) ==
    [s EXCEPT !.procedural_stack = Append(@, ProceduralStart(name, self_location(token)))]

\* The message of the mismatch error formats the name p, which is bound
\* nowhere in end_procedural's scope: building it raises NameError.
end_procedural(s, name) ==
    LET n == Len(s.procedural_stack)
        entry == s.procedural_stack[n]
        s1 == [s EXCEPT !.procedural_stack = SubSeq(@, 1, n - 1)]
    IN  IF entry.name # name
        THEN Raise(s1, "NameError", "name 'p' is not defined", -1, "p")
        ELSE s1

\* paragraph_break(); token is the lexpos of the loop's current token
paragraph_break(s, token) ==
    IF s.procedural_stack # <<>>
    THEN LET p == s.procedural_stack[Len(s.procedural_stack)]
         IN  Raise(s, "ParseError", "Unterminated procedural", p.location, p.name)
    ELSE IF s.current_heading_level # None
         THEN Raise(s, "ParseError", "Unterminated heading", token, "heading")
         ELSE IF s.in_paragraph
              THEN [Emit(s, Ev("end_paragraph")) EXCEPT !.in_paragraph = FALSE]
              ELSE s

\* ensure_paragraph(); token is the lexpos of the loop's current token
ensure_paragraph(s, token) ==
    IF s.in_definition = "list"
    THEN Raise(s, "InternalError", "Can't put contents in a definition list.",
               self_location(token), "")
    ELSE IF /\ ~s.in_paragraph
            /\ s.current_list_item = None
            /\ s.current_heading_level = None
            /\ s.in_definition \notin {"term", "def"}
         THEN [Emit(s, Ev("begin_paragraph")) EXCEPT !.in_paragraph = TRUE]
         ELSE s

----------------------------------------------------------------------------
(* Source text.  The source is fixed token by token as the tokenizer       *)
(* delivers it; only the text a macro call reads from self.lexer.remainder *)
(* is fixed ahead of the cursor.  It is a sequence of units, each of which *)
(* would lex as one token and counts as one source offset.                 *)

WordUnit == [kind |-> "word", name |-> ""]
BoldUnit == [kind |-> "bold", name |-> ""]
\* a run of blanks and tabs
BlankUnit == [kind |-> "whitespace", name |-> ""]
\* a run of newlines
NewlineUnit == [kind |-> "eols", name |-> ""]
\* f"</{name}>"
end_tag(name) == [kind |-> "htmltag_end", name |-> name]
\* the end of the source
EndOfSource == [kind |-> "eof", name |-> ""]

\* The units the text after the opening tag <name> is made of: a word, a
\* marker, blanks, a line end, the tag's own end tag and the end tag of
\* another macro.
Units(name) ==
    {WordUnit, BoldUnit, BlankUnit, NewlineUnit, end_tag(name),
     end_tag(IF name = "blockquote" THEN "s" ELSE "blockquote")}

\* The texts of at most n units after <name>; a run of newlines is one unit
\* and so are a run of word characters and a run of blanks (t_eols, t_word
\* and t_whitespace are greedy), no quote follows a bold marker, t_word
\* takes the blanks between two words, and t_eols the blanks between two
\* newlines.
Texts(n, name) ==
    {text \in UNION {[1..k -> Units(name)] : k \in 0..n} :
        /\ \A i \in 1..(Len(text) - 1) :
               /\ ~(text[i] = NewlineUnit /\ text[i + 1] = NewlineUnit)
               /\ ~(text[i] = WordUnit /\ text[i + 1] = WordUnit)
               /\ ~(text[i] = BoldUnit /\ text[i + 1] = BoldUnit)
               /\ ~(text[i] = BlankUnit /\ text[i + 1] = BlankUnit)
        /\ \A i \in 1..(Len(text) - 2) :
               text[i + 1] = BlankUnit =>
                   /\ ~(text[i] = WordUnit /\ text[i + 2] = WordUnit)
                   /\ ~(text[i] = NewlineUnit /\ text[i + 2] = NewlineUnit)}

\* text.index(unit), 1-based; 0 stands for ValueError
index(text, unit) ==
    IF \E i \in 1..Len(text) : text[i] = unit
    THEN CHOOSE i \in 1..Len(text) :
             text[i] = unit /\ \A j \in 1..(i - 1) : text[j] # unit
    ELSE 0

\* text.split("\n", 1)[0]
rest_of_line(text) ==
    LET nl == index(text, NewlineUnit)
    IN  IF nl = 0 THEN text ELSE SubSeq(text, 1, nl - 1)

\* text.endswith(unit)
endswith(text, unit) == text # <<>> /\ text[Len(text)] = unit

\* next_is_newline_re.match(text) is not None: [ \t]*\n, blanks if any and
\* then a newline
next_is_newline_re(text) ==
    \/ text # <<>> /\ text[1] = NewlineUnit
    \/ Len(text) >= 2 /\ text[1] = BlankUnit /\ text[2] = NewlineUnit

\* text[n:]
Drop(text, n) == SubSeq(text, n + 1, Len(text))

\* The text between [[ and ]], in pieces; "|" is the pipe character, every
\* other piece is text without one.  A plain link, a link with a target
\* that has the shape of a bracket-syntax macro call with parameters, and
\* a pipe with nothing before it.  (With nothing behind its last pipe a
\* link does not end at its brackets if another "]]" follows anywhere in
\* the source: link_target takes at least one character and runs on.)
LinkContents ==
    {<<"Link">>, <<"pre", ":", "a", "|", "b">>, <<"|", "b">>}

\* The groups link_text and link_target of t_link,
\* (?P<link_text>.+?)(?:\|(?P<link_target>.+?))?, matched up to the closing
\* brackets: link_text is the shortest text of at least one character that
\* is followed by a pipe with at least one character behind it, or else
\* the whole content; link_target is what stands behind that pipe, None
\* when there is none.
t_link(content) ==
    LET splits == {k \in 1..(Len(content) - 2) : content[k + 1] = "|"}
    IN  IF splits = {}
        THEN [text |-> content, target |-> None]
        ELSE LET k == CHOOSE k \in splits : \A j \in splits : k <= j
             IN  [text |-> SubSeq(content, 1, k), target |-> Drop(content, k + 1)]

----------------------------------------------------------------------------
(* The cases of "match token.type".  token is the lexpos of the token,     *)
(* which stands for Location.from_lextoken(token); self.location is        *)
(* self_location(token).                                                    *)

\* Mutant of OnBolditalic: the closing marker ends bold before italic.
OnBolditalic_BoldEndsFirst(s, token) ==
    Then(ensure_paragraph(s, token), LAMBDA s1 :
        IF current_procedural_name(s1) # "bolditalic"
        THEN Emit(Emit(begin_procedural(s1, "bolditalic", token),
                       Ev("begin_bold")), Ev("begin_italic"))
        ELSE Then(end_procedural(s1, "bolditalic"), LAMBDA s2 :
                 Emit(Emit(s2, Ev("end_bold")), Ev("end_italic"))))

\* case "bolditalic"
OnBolditalic(s, token) ==
    Then(ensure_paragraph(s, token), LAMBDA s1 :
        IF current_procedural_name(s1) # "bolditalic"
        THEN Emit(Emit(begin_procedural(s1, "bolditalic", token),
                       Ev("begin_bold")), Ev("begin_italic"))
        ELSE Then(end_procedural(s1, "bolditalic"), LAMBDA s2 :
                 Emit(Emit(s2, Ev("end_italic")), Ev("end_bold"))))

\* case "bold"
OnBold(s, token) ==
    Then(ensure_paragraph(s, token), LAMBDA s1 :
        IF current_procedural_name(s1) # "bold"
        THEN Emit(begin_procedural(s1, "bold", token), Ev("begin_bold"))
        ELSE Then(end_procedural(s1, "bold"), LAMBDA s2 : Emit(s2, Ev("end_bold"))))

\* case "italic"
OnItalic(s, token) ==
    Then(ensure_paragraph(s, token), LAMBDA s1 :
        IF current_procedural_name(s1) # "italic"
        THEN Emit(begin_procedural(s1, "italic", token), Ev("begin_italic"))
        ELSE Then(end_procedural(s1, "italic"), LAMBDA s2 : Emit(s2, Ev("end_italic"))))

\* paragraph_break_re.match(ws) is not None: ws begins with a blank line
IsParagraphBreak(ws) ==
    /\ Len(ws) >= 2
    /\ ws[1] = "\n"
    /\ \E i \in 2..Len(ws) : ws[i] = "\n"

\* case "comment"
OnComment(s, token, start_ws, end_ws) ==
    IF IsParagraphBreak(start_ws) \/ IsParagraphBreak(end_ws)
    THEN paragraph_break(s, token)
    ELSE IF start_ws # <<>> \/ end_ws # <<>>
         THEN Emit(s, EvText("other_characters", " "))
         ELSE s

\* case "br"
OnBr(s) == Emit(s, Ev("line_break"))

\* case "link"
OnLink(s, token, value) ==
    Then(ensure_paragraph(s, token), LAMBDA s1 :
        Emit(s1, EvLinkTo("link", value.text, value.target)))

\* case "hr"
OnHr(s) == Emit(s, Ev("horizontal_line"))

\* Mutant of OnListItem: the item is begun without the paragraph break.
OnListItem_NoParagraphBreak(s, token, signature) ==
    LET s1 == s
        oldlevel == IF s1.previous_list_item = None
                    THEN 0
                    ELSE Len(s1.previous_list_item)
    IN  IF Len(signature) > oldlevel + 1
        THEN Raise(s1, "ParseError", "List nesting error.", token, "")
        ELSE Then(CompilerBeginListItem(s1, signature, self_location(token)), LAMBDA s2 :
                 LET prev == s2.previous_list_item
                     l == IF Len(prev) < Len(signature) THEN Len(prev) ELSE Len(signature)
                 IN  IF prev # None /\ SubSeq(prev, 1, l) # SubSeq(signature, 1, l)
                     THEN Raise(s2, "ParseError",
                                "You cannot change list type mid list.", token, "")
                     ELSE [s2 EXCEPT !.current_list_item = signature])

\* case "list_item"
OnListItem(s, token, signature) ==
    Then(paragraph_break(s, token), LAMBDA s1 :
        LET oldlevel == IF s1.previous_list_item = None
                        THEN 0
                        ELSE Len(s1.previous_list_item)
        IN  IF Len(signature) > oldlevel + 1
            THEN Raise(s1, "ParseError", "List nesting error.", token, "")
            ELSE Then(CompilerBeginListItem(s1, signature, self_location(token)), LAMBDA s2 :
                     LET prev == s2.previous_list_item
                         l == IF Len(prev) < Len(signature) THEN Len(prev) ELSE Len(signature)
                     IN  IF prev # None /\ SubSeq(prev, 1, l) # SubSeq(signature, 1, l)
                         THEN Raise(s2, "ParseError",
                                    "You cannot change list type mid list.", token, "")
                         ELSE [s2 EXCEPT !.current_list_item = signature]))

\* Mutant of OnHeadingStart: a heading is begun without the paragraph break
\* and without the check for an open heading.
OnHeadingStart_Nests(s, token, level) ==
    [Emit(s, EvLevel("begin_heading", level))
        EXCEPT !.current_heading_level = <<level, self_location(token)>>]

\* case "heading_start"
OnHeadingStart(s, token, level) ==
    Then(paragraph_break(s, token), LAMBDA s1 :
        IF s1.current_heading_level # None
        THEN Raise(s1, "ParseError", "Can't nest headings.",
                   s1.current_heading_level[2], "heading")
        ELSE [Emit(s1, EvLevel("begin_heading", level))
                 EXCEPT !.current_heading_level = <<level, self_location(token)>>])

\* Mutant of OnHeadingEnd: the delimiter length is not compared with the
\* open heading's level.
OnHeadingEnd_NoLevelCheck(s, token, level) ==
    IF s.current_heading_level = None
    THEN Raise(s, "ParseError", "Attempt to close a heading that has not been opened",
               token, "heading")
    ELSE [Emit(s, EvLevel("end_heading", level))
             EXCEPT !.current_heading_level = None]

\* case "heading_end"
OnHeadingEnd(s, token, level) ==
    IF s.current_heading_level = None
    THEN Raise(s, "ParseError", "Attempt to close a heading that has not been opened",
               token, "heading")
    ELSE IF s.current_heading_level[1] # level
         THEN Raise(s, "ParseError", "Heading level mismatch",
                    s.current_heading_level[2], "heading")
         ELSE [Emit(s, EvLevel("end_heading", level))
                  EXCEPT !.current_heading_level = None]


\* macro_class.check_environment(environment): the class's declared context
\* is the only environment it accepts.
check_environment(name, environment) == MacroLibrary[name].context = environment

\* Mutant of process_macro_call: a raw macro gets its source but the cursor
\* is not moved behind the end tag.
process_macro_call_CursorStays(s, token, type, name, params, previous_is_newline, text) ==
    IF name \notin MacroNames
    THEN Raise(s, "UnknownMacro", "Unknown macro", token, name)
    ELSE
    LET next_is_newline == next_is_newline_re(text)
        endtag_on_line == endswith(rest_of_line(text), end_tag(name))
        inferred == IF previous_is_newline /\ (next_is_newline \/ endtag_on_line)
                    THEN "block"
                    ELSE "inline"
        checked ==
            IF check_environment(name, inferred)
            THEN s
            ELSE IF inferred = "block"
                 THEN Then(ensure_paragraph(s, token), LAMBDA s1 :
                          IF check_environment(name, "inline")
                          THEN s1
                          ELSE Raise(s1, "UnsuitableMacro", "Unsuitable macro", -1, name))
                 ELSE Raise(s, "UnsuitableMacro", "Unsuitable macro", token, name)
        environment == IF check_environment(name, inferred) THEN inferred ELSE "inline"
        protocol == MacroLibrary[name].protocol
    IN  Then(checked, LAMBDA s1 :
            IF type = "linkmacro" /\ protocol # "link"
            THEN Raise(s1, "UnsuitableMacro",
                       "Macros used with the link syntax must inherit from LinkMacro",
                       token, name)
            ELSE IF protocol = "tag"
                 THEN Emit([s1 EXCEPT !.tag_macro_stack =
                               Append(@, [name |-> name, environment |-> environment,
                                          lexpos |-> token])],
                           EvMacro("begin_tag_macro", name))
                 ELSE IF protocol = "raw"
                      THEN LET pos == index(text, end_tag(name))
                           IN  IF pos = 0
                               THEN Raise(s1, "ParseError", "Unterminated macro", token, name)
                               ELSE Emit([s1 EXCEPT !.moved = @],
                                         EvRaw("process_raw_macro", name,
                                               SubSeq(text, 1, pos - 1)))
                      ELSE Emit(s1, EvLink("process_link_macro", name, params)))

\* Mutant of process_macro_call: the new cursor of a raw macro is counted
\* from the start of the opening tag instead of from its end.
process_macro_call_FromTagStart(s, token, type, name, params, previous_is_newline, text) ==
    IF name \notin MacroNames
    THEN Raise(s, "UnknownMacro", "Unknown macro", token, name)
    ELSE
    LET next_is_newline == next_is_newline_re(text)
        endtag_on_line == endswith(rest_of_line(text), end_tag(name))
        inferred == IF previous_is_newline /\ (next_is_newline \/ endtag_on_line)
                    THEN "block"
                    ELSE "inline"
        checked ==
            IF check_environment(name, inferred)
            THEN s
            ELSE IF inferred = "block"
                 THEN Then(ensure_paragraph(s, token), LAMBDA s1 :
                          IF check_environment(name, "inline")
                          THEN s1
                          ELSE Raise(s1, "UnsuitableMacro", "Unsuitable macro", -1, name))
                 ELSE Raise(s, "UnsuitableMacro", "Unsuitable macro", token, name)
        environment == IF check_environment(name, inferred) THEN inferred ELSE "inline"
        protocol == MacroLibrary[name].protocol
    IN  Then(checked, LAMBDA s1 :
            IF type = "linkmacro" /\ protocol # "link"
            THEN Raise(s1, "UnsuitableMacro",
                       "Macros used with the link syntax must inherit from LinkMacro",
                       token, name)
            ELSE IF protocol = "tag"
                 THEN Emit([s1 EXCEPT !.tag_macro_stack =
                               Append(@, [name |-> name, environment |-> environment,
                                          lexpos |-> token])],
                           EvMacro("begin_tag_macro", name))
                 ELSE IF protocol = "raw"
                      THEN LET pos == index(text, end_tag(name))
                           IN  IF pos = 0
                               THEN Raise(s1, "ParseError", "Unterminated macro", token, name)
                               ELSE Emit([s1 EXCEPT !.moved = @ + pos - 1],
                                         EvRaw("process_raw_macro", name,
                                               SubSeq(text, 1, pos - 1)))
                      ELSE Emit(s1, EvLink("process_link_macro", name, params)))

\* Mutant of process_macro_call: the end of the source counts as the end of
\* the tag's line.
process_macro_call_BlockAtEnd(s, token, type, name, params, previous_is_newline, text) ==
    IF name \notin MacroNames
    THEN Raise(s, "UnknownMacro", "Unknown macro", token, name)
    ELSE
    LET next_is_newline == next_is_newline_re(text) \/ text = <<>>
        endtag_on_line == endswith(rest_of_line(text), end_tag(name))
        inferred == IF previous_is_newline /\ (next_is_newline \/ endtag_on_line)
                    THEN "block"
                    ELSE "inline"
        checked ==
            IF check_environment(name, inferred)
            THEN s
            ELSE IF inferred = "block"
                 THEN Then(ensure_paragraph(s, token), LAMBDA s1 :
                          IF check_environment(name, "inline")
                          THEN s1
                          ELSE Raise(s1, "UnsuitableMacro", "Unsuitable macro", -1, name))
                 ELSE Raise(s, "UnsuitableMacro", "Unsuitable macro", token, name)
        environment == IF check_environment(name, inferred) THEN inferred ELSE "inline"
        protocol == MacroLibrary[name].protocol
    IN  Then(checked, LAMBDA s1 :
            IF type = "linkmacro" /\ protocol # "link"
            THEN Raise(s1, "UnsuitableMacro",
                       "Macros used with the link syntax must inherit from LinkMacro",
                       token, name)
            ELSE IF protocol = "tag"
                 THEN Emit([s1 EXCEPT !.tag_macro_stack =
                               Append(@, [name |-> name, environment |-> environment,
                                          lexpos |-> token])],
                           EvMacro("begin_tag_macro", name))
                 ELSE IF protocol = "raw"
                      THEN LET pos == index(text, end_tag(name))
                           IN  IF pos = 0
                               THEN Raise(s1, "ParseError", "Unterminated macro", token, name)
                               ELSE Emit([s1 EXCEPT !.moved = @ + pos],
                                         EvRaw("process_raw_macro", name,
                                               SubSeq(text, 1, pos - 1)))
                      ELSE Emit(s1, EvLink("process_link_macro", name, params)))

\* Mutant of process_macro_call: a raw macro without an end tag takes the
\* rest of the source.
process_macro_call_RawToEnd(s, token, type, name, params, previous_is_newline, text) ==
    IF name \notin MacroNames
    THEN Raise(s, "UnknownMacro", "Unknown macro", token, name)
    ELSE
    LET next_is_newline == next_is_newline_re(text)
        endtag_on_line == endswith(rest_of_line(text), end_tag(name))
        inferred == IF previous_is_newline /\ (next_is_newline \/ endtag_on_line)
                    THEN "block"
                    ELSE "inline"
        checked ==
            IF check_environment(name, inferred)
            THEN s
            ELSE IF inferred = "block"
                 THEN Then(ensure_paragraph(s, token), LAMBDA s1 :
                          IF check_environment(name, "inline")
                          THEN s1
                          ELSE Raise(s1, "UnsuitableMacro", "Unsuitable macro", -1, name))
                 ELSE Raise(s, "UnsuitableMacro", "Unsuitable macro", token, name)
        environment == IF check_environment(name, inferred) THEN inferred ELSE "inline"
        protocol == MacroLibrary[name].protocol
    IN  Then(checked, LAMBDA s1 :
            IF type = "linkmacro" /\ protocol # "link"
            THEN Raise(s1, "UnsuitableMacro",
                       "Macros used with the link syntax must inherit from LinkMacro",
                       token, name)
            ELSE IF protocol = "tag"
                 THEN Emit([s1 EXCEPT !.tag_macro_stack =
                               Append(@, [name |-> name, environment |-> environment,
                                          lexpos |-> token])],
                           EvMacro("begin_tag_macro", name))
                 ELSE IF protocol = "raw"
                      THEN LET pos == index(text, end_tag(name))
                           IN  IF pos = 0
                               THEN Emit([s1 EXCEPT !.moved = @ + Len(text)],
                                         EvRaw("process_raw_macro", name, text))
                               ELSE Emit([s1 EXCEPT !.moved = @ + pos],
                                         EvRaw("process_raw_macro", name,
                                               SubSeq(text, 1, pos - 1)))
                      ELSE Emit(s1, EvLink("process_link_macro", name, params)))

\* Mutant of process_macro_call: a rejected block placement is not retried
\* as inline.
process_macro_call_NoRetry(s, token, type, name, params, previous_is_newline, text) ==
    IF name \notin MacroNames
    THEN Raise(s, "UnknownMacro", "Unknown macro", token, name)
    ELSE
    LET next_is_newline == next_is_newline_re(text)
        endtag_on_line == endswith(rest_of_line(text), end_tag(name))
        inferred == IF previous_is_newline /\ (next_is_newline \/ endtag_on_line)
                    THEN "block"
                    ELSE "inline"
        checked ==
            IF check_environment(name, inferred)
            THEN s
            ELSE Raise(s, "UnsuitableMacro", "Unsuitable macro", token, name)
        environment == IF check_environment(name, inferred) THEN inferred ELSE "inline"
        protocol == MacroLibrary[name].protocol
    IN  Then(checked, LAMBDA s1 :
            IF type = "linkmacro" /\ protocol # "link"
            THEN Raise(s1, "UnsuitableMacro",
                       "Macros used with the link syntax must inherit from LinkMacro",
                       token, name)
            ELSE IF protocol = "tag"
                 THEN Emit([s1 EXCEPT !.tag_macro_stack =
                               Append(@, [name |-> name, environment |-> environment,
                                          lexpos |-> token])],
                           EvMacro("begin_tag_macro", name))
                 ELSE IF protocol = "raw"
                      THEN LET pos == index(text, end_tag(name))
                           IN  IF pos = 0
                               THEN Raise(s1, "ParseError", "Unterminated macro", token, name)
                               ELSE Emit([s1 EXCEPT !.moved = @ + pos],
                                         EvRaw("process_raw_macro", name,
                                               SubSeq(text, 1, pos - 1)))
                      ELSE Emit(s1, EvLink("process_link_macro", name, params)))

\* process_macro_call(token, name, params).  text is self.lexer.remainder,
\* the source after the tag.
process_macro_call(s, token, type, name, params, previous_is_newline, text) ==
    IF name \notin MacroNames
    THEN Raise(s, "UnknownMacro", "Unknown macro", token, name)
    ELSE
    LET next_is_newline == next_is_newline_re(text)
        endtag_on_line == endswith(rest_of_line(text), end_tag(name))
        inferred == IF previous_is_newline /\ (next_is_newline \/ endtag_on_line)
                    THEN "block"
                    ELSE "inline"
        checked ==
            IF check_environment(name, inferred)
            THEN s
            ELSE IF inferred = "block"
                 THEN Then(ensure_paragraph(s, token), LAMBDA s1 :
                          IF check_environment(name, "inline")
                          THEN s1
                          ELSE Raise(s1, "UnsuitableMacro", "Unsuitable macro", -1, name))
                 ELSE Raise(s, "UnsuitableMacro", "Unsuitable macro", token, name)
        environment == IF check_environment(name, inferred) THEN inferred ELSE "inline"
        protocol == MacroLibrary[name].protocol
    IN  Then(checked, LAMBDA s1 :
            IF type = "linkmacro" /\ protocol # "link"
            THEN Raise(s1, "UnsuitableMacro",
                       "Macros used with the link syntax must inherit from LinkMacro",
                       token, name)
            ELSE IF protocol = "tag"
                 THEN Emit([s1 EXCEPT !.tag_macro_stack =
                               Append(@, [name |-> name, environment |-> environment,
                                          lexpos |-> token])],
                           EvMacro("begin_tag_macro", name))
                 ELSE IF protocol = "raw"
                      THEN LET pos == index(text, end_tag(name))
                           IN  IF pos = 0
                               THEN Raise(s1, "ParseError", "Unterminated macro", token, name)
                               ELSE Emit([s1 EXCEPT !.moved = @ + pos],
                                         EvRaw("process_raw_macro", name,
                                               SubSeq(text, 1, pos - 1)))
                      ELSE Emit(s1, EvLink("process_link_macro", name, params)))

\* case "htmltag_start"
OnHtmltagStart(s, token, name, previous_is_newline, text) ==
    process_macro_call(s, token, "htmltag_start", name, <<>>, previous_is_newline, text)

\* Mutant of OnHtmltagEnd: the closing tag's name is not compared with the
\* macro on top of the stack.
OnHtmltagEnd_NoNameCheck(s, token, tag) ==
    IF Len(s.tag_macro_stack) = 0
    THEN Raise(s, "ParseError", "Cannot close macro; not opened.", token, tag)
    ELSE LET n == Len(s.tag_macro_stack)
             lastopen == s.tag_macro_stack[n]
             s1 == [s EXCEPT !.tag_macro_stack = SubSeq(@, 1, n - 1)]
         IN  Then(IF lastopen.environment = "block"
                  THEN paragraph_break(s1, token)
                  ELSE s1,
                  LAMBDA s2 : Emit(s2, EvMacro("end_tag_macro", lastopen.name)))

\* case "htmltag_end"
OnHtmltagEnd(s, token, tag) ==
    IF Len(s.tag_macro_stack) = 0
    THEN Raise(s, "ParseError", "Cannot close macro; not opened.", token, tag)
    ELSE LET n == Len(s.tag_macro_stack)
             lastopen == s.tag_macro_stack[n]
             s1 == [s EXCEPT !.tag_macro_stack = SubSeq(@, 1, n - 1)]
         IN  IF lastopen.name # tag
             THEN Raise(s1, "ParseError", "Macro nesting error", token, lastopen.name)
             ELSE Then(IF lastopen.environment = "block"
                       THEN paragraph_break(s1, token)
                       ELSE s1,
                       LAMBDA s2 : Emit(s2, EvMacro("end_tag_macro", lastopen.name)))

\* case "whitespace"
OnWhitespace(s) == Emit(s, EvText("other_characters", " "))

\* Mutant of OnEols: only a run of exactly two newlines breaks the
\* paragraph, a longer run is whitespace.
OnEols_ExactlyTwo(s, token, nlcount, listitem_is_next, defelement_is_next) ==
    IF s.in_definition = "term"
    THEN [Emit(s, Ev("end_definition_term")) EXCEPT !.in_definition = "list"]
    ELSE IF s.in_definition = "def"
    THEN LET s1 == Emit(s, Ev("end_definition_def"))
         IN  IF ~defelement_is_next
             THEN [Emit(s1, Ev("end_definition_list")) EXCEPT !.in_definition = NoDefinition]
             ELSE [s1 EXCEPT !.in_definition = "list"]
    ELSE IF s.current_list_item # None
    THEN LET s1 == Emit(s, Ev("end_list_item"))
         IN  IF ~listitem_is_next \/ nlcount > 1
             THEN [CompilerFinalizeList(s1) EXCEPT !.previous_list_item = None,
                                                   !.current_list_item = None]
             ELSE [s1 EXCEPT !.previous_list_item = s1.current_list_item,
                             !.current_list_item = None]
    ELSE IF nlcount = 2
    THEN paragraph_break(s, token)
    ELSE Emit(s, EvText("other_characters", " "))

\* case "eols".  listitem_is_next and defelement_is_next are the results of
\* matching listitem_is_next_re and defelement_is_next_re on the remainder.
OnEols(s, token, nlcount, listitem_is_next, defelement_is_next) ==
    IF s.in_definition = "term"
    THEN [Emit(s, Ev("end_definition_term")) EXCEPT !.in_definition = "list"]
    ELSE IF s.in_definition = "def"
    THEN LET s1 == Emit(s, Ev("end_definition_def"))
         IN  IF ~defelement_is_next
             THEN [Emit(s1, Ev("end_definition_list")) EXCEPT !.in_definition = NoDefinition]
             ELSE [s1 EXCEPT !.in_definition = "list"]
    ELSE IF s.current_list_item # None
    THEN LET s1 == Emit(s, Ev("end_list_item"))
         IN  IF ~listitem_is_next \/ nlcount > 1
             THEN [CompilerFinalizeList(s1) EXCEPT !.previous_list_item = None,
                                                   !.current_list_item = None]
             ELSE [s1 EXCEPT !.previous_list_item = s1.current_list_item,
                             !.current_list_item = None]
    ELSE IF nlcount = 1
    THEN Emit(s, EvText("other_characters", " "))
    ELSE paragraph_break(s, token)

\* case "word"
OnWord(s, token) ==
    Then(ensure_paragraph(s, token), LAMBDA s1 : Emit(s1, EvText("word", "word")))

\* A token of type "text": no case of the match statement takes it.
OnText(s) == s

\* Mutant of OnDocumentEnd: with a tag macro still open, parse returns
\* without an error and without end_document.
OnDocumentEnd_ReturnsSilently(s, token) ==
    Then(paragraph_break(s, token), LAMBDA s1 :
        IF Len(s1.tag_macro_stack) > 0
        THEN s1
        ELSE [Emit(s1, Ev("end_document")) EXCEPT !.pc = "done"])

\* Mutant of OnDocumentEnd: the tag-macro stack is not checked.
OnDocumentEnd_NoStackCheck(s, token) ==
    Then(paragraph_break(s, token), LAMBDA s1 :
        [Emit(s1, Ev("end_document")) EXCEPT !.pc = "done"])

\* Mutant of OnDocumentEnd: the error is located at the last token instead
\* of the opening tag.
OnDocumentEnd_TokenLocation(s, token) ==
    Then(paragraph_break(s, token), LAMBDA s1 :
        IF Len(s1.tag_macro_stack) > 0
        THEN LET lastopen == s1.tag_macro_stack[Len(s1.tag_macro_stack)]
             IN  Raise(s1, "ParseError", "Macro not closed. Started at:",
                       token, lastopen.name)
        ELSE [Emit(s1, Ev("end_document")) EXCEPT !.pc = "done"])

\* Mutant of OnDocumentEnd: the error names the bottom of the stack.
OnDocumentEnd_Outermost(s, token) ==
    Then(paragraph_break(s, token), LAMBDA s1 :
        IF Len(s1.tag_macro_stack) > 0
        THEN LET firstopen == s1.tag_macro_stack[1]
             IN  Raise(s1, "ParseError", "Macro not closed. Started at:",
                       firstopen.lexpos, firstopen.name)
        ELSE [Emit(s1, Ev("end_document")) EXCEPT !.pc = "done"])

\* Mutant of OnDocumentEnd: compiler.end_document() is called even when the
\* final checks raise.
OnDocumentEnd_EndsAnyway(s, token) ==
    LET s1 == paragraph_break(s, token)
    IN  IF Failed(s1)
        THEN Emit(s1, Ev("end_document"))
        ELSE IF Len(s1.tag_macro_stack) > 0
             THEN LET lastopen == s1.tag_macro_stack[Len(s1.tag_macro_stack)]
                  IN  Emit(Raise(s1, "ParseError", "Macro not closed. Started at:",
                                 lastopen.lexpos, lastopen.name),
                           Ev("end_document"))
             ELSE [Emit(s1, Ev("end_document")) EXCEPT !.pc = "done"]

\* The code after the token loop; token is the last token of the loop.
OnDocumentEnd(s, token) ==
    Then(paragraph_break(s, token), LAMBDA s1 :
        IF Len(s1.tag_macro_stack) > 0
        THEN LET lastopen == s1.tag_macro_stack[Len(s1.tag_macro_stack)]
             IN  Raise(s1, "ParseError", "Macro not closed. Started at:",
                       lastopen.lexpos, lastopen.name)
        ELSE [Emit(s1, Ev("end_document")) EXCEPT !.pc = "done"])

----------------------------------------------------------------------------
(* The tokenizer (lextokens.py), as far as it restricts which token can    *)
(* come next.                                                               *)

\* Rules anchored with ^ match at a line start only.
AnchoredKinds == {"list_item", "heading_start", "hr"}

\* What each look-ahead outcome at an eols token says about the remainder.
Aheads == {"item", "def", "other"}

\* A token of this kind can be the next one.  peek is what the token before
\* leaves known about the text at the cursor:
\*   "item", "def", "other"  after eols, by the look-aheads: a list marker, a
\*             definition marker, neither; no whitespace up to a newline or
\*             a comment follows, t_eols or t_comment would have taken it;
\*   "eol"     after heading_end, whose rule ends with $;
\*   "nows"    after list_item and comment, whose rules end with \s*;
\*   "noblank" after heading_start, whose rule ends with [ \t]*;
\*   "word"    after word, which takes every word character;
\*   "emph"    after bold and italic: no quote follows, the longer rule
\*             (t_bolditalic before t_bold before t_italic) would have
\*             taken it;
\*   "ws", "wordws", "eolws"  after whitespace (after a word and
\*             whitespace, after eols and whitespace): no blank follows, nor
\*             a rule tried before t_whitespace that may begin with blanks,
\*             nor a word that t_word would have joined, nor a newline that
\*             t_eols would have taken together with the blanks.
\* At a line start a "=" belongs to t_heading_start, which is tried before
\* t_heading_end: a heading_end there begins with blanks.
LexOk(kind) ==
    /\ pc = "run"
    /\ \/ lexpos < MaxTokens
       \/ remainder \notin {<<>>, <<EndOfSource>>}
       \/ peek \in {"item", "def"}
    /\ kind \in AnchoredKinds => bol
    /\ peek = "item" => kind = "list_item"
    /\ peek = "def" => kind = "text"
    /\ peek = "other" => kind \notin {"list_item", "eols", "comment"}
    /\ peek = "eol" => kind \in {"eols", "comment"}
    /\ peek = "nows" => kind \notin {"eols", "whitespace"}
    /\ peek = "noblank" => kind # "whitespace"
    /\ peek = "word" => kind # "word"
    /\ peek = "emph" => kind \notin {"bolditalic", "bold", "italic"}
    /\ peek = "ws" => kind \notin {"whitespace", "comment", "heading_end"}
    /\ peek = "wordws" => kind \notin {"whitespace", "comment", "heading_end", "word"}
    /\ peek = "eolws" => kind \notin {"whitespace", "comment", "heading_end", "eols"}
    /\ (bol /\ peek = "nows") => kind # "heading_end"
    /\ remainder # <<>> => remainder[1].kind = kind

\* The token is consumed.
Advance(at_line_start, next) ==
    /\ lexpos' = lexpos + 1
    /\ last_token' = lexpos
    /\ bol' = at_line_start
    /\ peek' = next
    /\ remainder' = IF remainder = <<>> THEN <<>> ELSE Tail(remainder)

----------------------------------------------------------------------------
(* Actions: one per token type, and the end of the token stream.            *)

Bolditalic ==
    /\ LexOk("bolditalic")
    /\ Commit(OnBolditalic(Self, lexpos))
    /\ Advance(FALSE, "any")

Bold ==
    /\ LexOk("bold")
    /\ Commit(OnBold(Self, lexpos))
    /\ Advance(FALSE, "emph")

Italic ==
    /\ LexOk("italic")
    /\ Commit(OnItalic(Self, lexpos))
    /\ Advance(FALSE, "emph")

\* A comment token with the whitespace captured before and after it.  The
\* cursor stands at a line start afterwards if that whitespace ends with a
\* newline.
CommentToken(start_ws, end_ws) ==
    /\ LexOk("comment")
    /\ peek = "eol" => Head(start_ws \o <<"">>) = "\n"
    /\ peek = "nows" => start_ws = <<>>
    /\ peek = "noblank" => Head(start_ws \o <<"\n">>) = "\n"
    /\ Commit(OnComment(Self, lexpos, start_ws, end_ws))
    /\ Advance(end_ws # <<>> /\ end_ws[Len(end_ws)] = "\n", "nows")

Comment ==
    \E start_ws \in CommentWs, end_ws \in CommentWs :
        CommentToken(start_ws, end_ws)

Br ==
    /\ LexOk("br")
    /\ Commit(OnBr(Self))
    /\ Advance(FALSE, "any")

\* A link token [[content]].
LinkToken(content) ==
    /\ LexOk("link")
    /\ Commit(OnLink(Self, lexpos, t_link(content)))
    /\ Advance(FALSE, "any")

Link ==
    \E content \in LinkContents :
        LinkToken(content)

Hr ==
    /\ LexOk("hr")
    /\ Commit(OnHr(Self))
    /\ Advance(FALSE, "any")

\* A list_item token with this signature.  The rule's trailing \s* may run
\* over the end of the line (ate_newline).
ListItemToken(signature, ate_newline) ==
    /\ LexOk("list_item")
    /\ Commit(OnListItem(Self, lexpos, signature))
    /\ Advance(ate_newline, "nows")

ListItem ==
    \E signature \in Signatures, ate_newline \in BOOLEAN :
        ListItemToken(signature, ate_newline)

HeadingStart ==
    \E level \in Levels :
        /\ LexOk("heading_start")
        /\ Commit(OnHeadingStart(Self, lexpos, level))
        /\ Advance(FALSE, "noblank")

\* The rule ends with $: the line ends right after the token.
HeadingEndToken(level) ==
    /\ LexOk("heading_end")
    /\ Commit(OnHeadingEnd(Self, lexpos, level))
    /\ Advance(FALSE, "eol")

HeadingEnd ==
    \E level \in Levels :
        HeadingEndToken(level)

\* The text after a tag, as far as the macro call reads it: up to the end
\* of the source (at_end), or else at least up to the end of the tag's line
\* and, for a raw macro, up to its end tag.
TextOk(name, text, at_end) ==
    /\ text \in Texts(MaxSource - lexpos - 1, name)
    /\ name \notin MacroNames => text = <<>> /\ at_end
    /\ ~at_end => /\ endswith(text, NewlineUnit)
                  /\ MacroLibrary[name].protocol = "raw" => index(text, end_tag(name)) # 0

\* An opening tag <name> followed by text; the source ends after text if
\* at_end.  A raw macro moves the cursor over its source and its end tag.
HtmltagStartToken(name, text, at_end) ==
    /\ LexOk("htmltag_start")
    /\ TextOk(name, text, at_end)
    /\ LET s == OnHtmltagStart(Self, lexpos, name, bol, text)
       IN  /\ Commit(s)
           /\ lexpos' = lexpos + 1 + s.moved
           /\ last_token' = lexpos
           /\ remainder' = Drop(text, s.moved) \o (IF at_end THEN <<EndOfSource>> ELSE <<>>)
    /\ bol' = FALSE
    /\ peek' = "any"

HtmltagStart ==
    \E name \in TagNames, at_end \in BOOLEAN :
        \E text \in Texts(MaxSource - lexpos - 1, name) :
            HtmltagStartToken(name, text, at_end)

HtmltagEndToken(tag) ==
    /\ LexOk("htmltag_end")
    /\ remainder # <<>> => remainder[1].name = tag
    /\ Commit(OnHtmltagEnd(Self, lexpos, tag))
    /\ Advance(FALSE, "any")

HtmltagEnd ==
    \E tag \in TagNames :
        HtmltagEndToken(tag)

Whitespace ==
    /\ LexOk("whitespace")
    /\ Commit(OnWhitespace(Self))
    /\ Advance(FALSE, IF peek \in {"word", "wordws"} THEN "wordws"
                      ELSE IF peek = "other" THEN "eolws" ELSE "ws")

\* An eols token of nlcount newlines, with what follows it in the source:
\* the text a macro call has read, or a marker only where the source can go
\* on.
EolsToken(nlcount, ahead) ==
    /\ LexOk("eols")
    /\ Len(remainder) > 1 => ahead = "other"
    /\ Commit(OnEols(Self, lexpos, nlcount, ahead = "item", ahead = "def"))
    /\ Advance(TRUE, ahead)

Eols ==
    \E nlcount \in 1..MaxNl, ahead \in Aheads :
        EolsToken(nlcount, ahead)

Word ==
    /\ LexOk("word")
    /\ Commit(OnWord(Self, lexpos))
    /\ Advance(FALSE, "word")

\* A token of type "text": one character that no other rule takes.  At a
\* line start, the look-ahead of the eols before it has seen whether it is
\* a definition marker.
TextToken(char) ==
    /\ LexOk("text")
    /\ peek = "def" => char \in {";", ":"}
    /\ peek = "other" => char \notin {";", ":"}
    /\ Commit(OnText(Self))
    /\ Advance(FALSE, "any")

Text ==
    \E char \in TextChars :
        TextToken(char)

\* The token loop ends when the source is used up.
DocumentEnd ==
    /\ pc = "run"
    /\ peek \notin {"item", "def"}
    /\ remainder \in {<<>>, <<EndOfSource>>}
    /\ Commit(OnDocumentEnd(Self, last_token))
    /\ UNCHANGED <<lexpos, bol, peek, last_token, remainder>>

\* The state after the assignments at the top of parse() and
\* compiler.begin_document(self), for a compiler drawn from compilers.
Start(compilers) ==
    /\ pc = "run"
    /\ error = NoError
    /\ events = <<Ev("begin_document")>>
    /\ backend \in compilers
    /\ procedural_stack = <<>>
    /\ current_heading_level = None
    /\ previous_list_item = None
    /\ current_list_item = None
    /\ tag_macro_stack = <<>>
    /\ in_definition = NoDefinition
    /\ in_paragraph = FALSE
    /\ current_list = None
    /\ list_output = <<>>
    /\ lexpos = 0
    /\ bol = TRUE
    /\ peek = "any"
    /\ last_token = -1
    /\ remainder = <<>>
    /\ location_reading \in LocationReadings

\* parser.parse(source, WikiTextCompiler(context))
Init == Start({"base"})

Next ==
    \/ Bolditalic \/ Bold \/ Italic \/ Comment \/ Br \/ Link \/ Hr
    \/ ListItem
    \/ HeadingStart \/ HeadingEnd
    \/ HtmltagStart \/ HtmltagEnd
    \/ Whitespace \/ Eols \/ Word \/ Text
    \/ DocumentEnd

\* Every token type, base compiler.
Spec == Init /\ [][Next]_vars

\* parse() is one sequential loop over the tokens: as long as a step can be
\* taken, one is taken.
SpecFair == Spec /\ WF_vars(Next)

\* The list-related token types under each of the three compilers.
InitBackends == Start(Backends)

NextLists ==
    \/ ListItem \/ Eols \/ Word \/ Bold \/ Whitespace
    \/ DocumentEnd

SpecBackends == InitBackends /\ [][NextLists]_vars

----------------------------------------------------------------------------
(* Vocabulary of the properties: the event stream read as a sequence of    *)
(* begin and end events of constructs.                                      *)

Last(seq) == seq[Len(seq)]

\* The construct kind each begin or end event belongs to.
KindOf ==
    [begin_paragraph |-> "paragraph", end_paragraph |-> "paragraph",
     begin_bold |-> "bold", end_bold |-> "bold",
     begin_italic |-> "italic", end_italic |-> "italic",
     begin_heading |-> "heading", end_heading |-> "heading",
     begin_list_item |-> "list_item", end_list_item |-> "list_item",
     begin_definition_list |-> "definition_list", end_definition_list |-> "definition_list",
     begin_definition_term |-> "definition_term", end_definition_term |-> "definition_term",
     begin_definition_def |-> "definition_def", end_definition_def |-> "definition_def",
     begin_tag_macro |-> "tag_macro", end_tag_macro |-> "tag_macro"]

BeginNames ==
    {"begin_paragraph", "begin_bold", "begin_italic", "begin_heading", "begin_list_item",
     "begin_definition_list", "begin_definition_term", "begin_definition_def",
     "begin_tag_macro"}

EndNames ==
    {"end_paragraph", "end_bold", "end_italic", "end_heading", "end_list_item",
     "end_definition_list", "end_definition_term", "end_definition_def",
     "end_tag_macro"}

IsBegin(e) == e.name \in BeginNames
IsEnd(e) == e.name \in EndNames

\* The construct an event begins or ends; tag macros are told apart by name.
Construct(e) == <<KindOf[e.name], e.arg>>

\* Reads evs from index i on with the constructs in open begun and not yet
\* ended; ok is FALSE as soon as an end event does not close the construct
\* begun last.
RECURSIVE NestScan(_, _, _)
NestScan(evs, i, open) ==
    IF i > Len(evs)
    THEN [ok |-> TRUE, open |-> open]
    ELSE IF IsBegin(evs[i])
         THEN NestScan(evs, i + 1, Append(open, Construct(evs[i])))
         ELSE IF IsEnd(evs[i])
              THEN IF open # <<>> /\ Last(open) = Construct(evs[i])
                   THEN NestScan(evs, i + 1, SubSeq(open, 1, Len(open) - 1))
                   ELSE [ok |-> FALSE, open |-> open]
              ELSE NestScan(evs, i + 1, open)

\* Every end event of evs closes the most recently begun open construct.
WellNested(evs) == NestScan(evs, 1, <<>>).ok

\* The events a step added to the stream.
Emitted == SubSeq(events', Len(events) + 1, Len(events'))

\* Number of events of evs with the given name.
Count(evs, name) == Cardinality({i \in 1..Len(evs) : evs[i].name = name})

Names(evs) == [i \in 1..Len(evs) |-> evs[i].name]

----------------------------------------------------------------------------
(* Claims.                                                                  *)

\* C1: whenever parse completes (end_document emitted), the event stream is
\* well-nested over all construct kinds together: every end event closes
\* the most recently begun construct that is still open.
C1_CompletedStreamWellNested ==
    pc = "done" => WellNested(events)

\* C2: whenever parse fails, the events emitted before the failure form a
\* prefix of a well-nested stream, and the step that raised the error
\* emitted no begin event for the rejected token.
C2_FailedStreamWellNestedPrefix ==
    [][pc' = "error" =>
          /\ WellNested(events')
          /\ \A i \in 1..Len(Emitted) : ~IsBegin(Emitted[i])]_vars


\* Nothing is open on the procedural stack, as a heading or on the
\* tag-macro stack.
StacksEmpty ==
    /\ procedural_stack = <<>>
    /\ current_heading_level = None
    /\ tag_macro_stack = <<>>

MacroNotClosed == "Macro not closed. Started at:"

\* C3: end_document is emitted only from a state in which the procedural
\* stack is empty, no heading is active and the tag-macro stack is empty; if
\* the token stream ends while one of them is not, parse fails and emits no
\* end_document.
C3_EndDocumentOnlyFromEmptyStacks ==
    [][/\ Count(Emitted, "end_document") > 0 => StacksEmpty
       /\ (DocumentEnd /\ ~StacksEmpty) =>
              (pc' = "error" /\ Count(events', "end_document") = 0)]_vars

\* C3 witness: a parse completed after a tag macro and an emphasis were
\* opened and closed again.
C3_Witness ==
    /\ pc = "done"
    /\ Last(events).name = "end_document"
    /\ Count(events, "begin_tag_macro") > 0
    /\ Count(events, "begin_bold") > 0

\* C4 (as claimed): if the token stream ends while a tag macro is on the
\* tag-macro stack, parse fails with the error that names that macro and
\* carries the position of its opening tag, and neither end_tag_macro nor
\* end_document is emitted.
C4_OpenTagMacroIsReported ==
    [][(DocumentEnd /\ tag_macro_stack # <<>>) =>
          /\ pc' = "error"
          /\ error'.msg = MacroNotClosed
          /\ \E i \in 1..Len(tag_macro_stack) :
                 /\ error'.name = tag_macro_stack[i].name
                 /\ error'.location = tag_macro_stack[i].lexpos
          /\ Count(Emitted, "end_tag_macro") = 0
          /\ Count(Emitted, "end_document") = 0]_vars

\* C4 (amended): if the token stream ends while a tag macro is on the
\* tag-macro stack, parse fails and emits neither end_tag_macro nor
\* end_document; the error names the macro on top of the stack with the
\* position of its opening tag when no emphasis and no heading is open, and
\* is the "Unterminated" error of the final paragraph break otherwise.
C4_OpenTagMacroFailsAtEnd ==
    [][(DocumentEnd /\ tag_macro_stack # <<>>) =>
          /\ pc' = "error"
          /\ Count(Emitted, "end_tag_macro") = 0
          /\ Count(Emitted, "end_document") = 0
          /\ IF procedural_stack = <<>> /\ current_heading_level = None
             THEN error' = [exc |-> "ParseError", msg |-> MacroNotClosed,
                            location |-> Last(tag_macro_stack).lexpos,
                            name |-> Last(tag_macro_stack).name]
             ELSE error'.msg \in {"Unterminated procedural", "Unterminated heading"}]_vars

\* C4 witness: the parse failed at the end of the stream on a macro whose
\* opening tag is not the last token.
C4_Witness ==
    /\ pc = "error"
    /\ error.msg = MacroNotClosed
    /\ tag_macro_stack # <<>>
    /\ error.location = Last(tag_macro_stack).lexpos
    /\ error.location < lexpos - 1

\* C5 (as claimed): with two or more tag macros open at the end of the
\* stream, the macro-not-closed error names the outermost one (the bottom of
\* the tag-macro stack) and its start location.
C5_ErrorNamesOutermostMacro ==
    [][(DocumentEnd /\ Len(tag_macro_stack) >= 2 /\ error'.msg = MacroNotClosed) =>
          /\ error'.name = tag_macro_stack[1].name
          /\ error'.location = tag_macro_stack[1].lexpos]_vars

\* C5 (amended): with two or more tag macros open at the end of the stream,
\* the macro-not-closed error names the innermost one (the last one opened,
\* the top of the tag-macro stack) and its start location.
C5_ErrorNamesInnermostMacro ==
    [][(DocumentEnd /\ Len(tag_macro_stack) >= 2) =>
          /\ pc' = "error"
          /\ error'.msg = MacroNotClosed =>
                 /\ error'.name = Last(tag_macro_stack).name
                 /\ error'.location = Last(tag_macro_stack).lexpos
                 /\ error'.location > tag_macro_stack[1].lexpos]_vars

\* C5 witness: the parse failed at the end of the stream with two different
\* tag macros open.
C5_Witness ==
    /\ pc = "error"
    /\ error.msg = MacroNotClosed
    /\ Len(tag_macro_stack) >= 2
    /\ tag_macro_stack[1].name # Last(tag_macro_stack).name
    /\ error.name = Last(tag_macro_stack).name


Max(S) == CHOOSE x \in S : \A y \in S : y <= x

\* The signature of the previous item of the list block that is open at the
\* end of evs; None when no block is open.
PreviousItemOfBlock(evs) ==
    LET at == {i \in 1..Len(evs) : evs[i].name \in {"begin_list_item", "finalize_list"}}
    IN  IF at = {} \/ evs[Max(at \cup {0})].name = "finalize_list"
        THEN None
        ELSE evs[Max(at)].sig

NestingError == "List nesting error."
TypeChangeError == "You cannot change list type mid list."

\* C6: within one contiguous list block, a list item (reached with no
\* emphasis and no heading open) whose signature is more than one character
\* longer than the previous item's signature (longer than one character for
\* the first item of the block) fails with the list-nesting error, and every
\* signature of length at most previous+1 passes the depth check.
C6_DepthCheckAgainstPreviousItem ==
    [][\A signature \in Signatures, ate_newline \in BOOLEAN :
          (/\ ListItemToken(signature, ate_newline)
           /\ procedural_stack = <<>> /\ current_heading_level = None) =>
              IF Len(signature) > Len(PreviousItemOfBlock(events)) + 1
              THEN pc' = "error" /\ error'.msg = NestingError
              ELSE error'.msg # NestingError]_vars

\* The two signatures differ within their shared prefix.
SharedPrefixDiffers(previous, signature) ==
    \E i \in 1..Len(previous) : i <= Len(signature) /\ previous[i] # signature[i]

\* C7: a list item that gets past the paragraph break and the depth check
\* and whose signature differs from the previous item's within their shared
\* prefix fails with ParseError "You cannot change list type mid list" and
\* with no other error, whichever compiler consumes the events.
C7_TypeChangeIsParseError ==
    [][\A signature \in Signatures, ate_newline \in BOOLEAN :
          (/\ ListItemToken(signature, ate_newline)
           /\ procedural_stack = <<>> /\ current_heading_level = None
           /\ previous_list_item # None
           /\ Len(signature) <= Len(previous_list_item) + 1
           /\ SharedPrefixDiffers(previous_list_item, signature)) =>
              /\ pc' = "error"
              /\ error'.exc = "ParseError"
              /\ error'.msg = TypeChangeError]_vars

\* Reads the list events of evs from index i on: "out" outside a list block,
\* "item" inside an item, "between" after an item of an open block, "bad"
\* once the order begin_list_item, end_list_item, ..., finalize_list is
\* broken.
RECURSIVE ListScan(_, _, _)
ListScan(evs, i, at) ==
    IF i > Len(evs) \/ at = "bad"
    THEN at
    ELSE LET n == evs[i].name
         IN  IF n = "begin_list_item"
             THEN ListScan(evs, i + 1, IF at \in {"out", "between"} THEN "item" ELSE "bad")
             ELSE IF n = "end_list_item"
             THEN ListScan(evs, i + 1, IF at = "item" THEN "between" ELSE "bad")
             ELSE IF n = "finalize_list"
             THEN ListScan(evs, i + 1, IF at = "between" THEN "out" ELSE "bad")
             ELSE ListScan(evs, i + 1, at)

\* C8: on every completed parse each begin_list_item is followed by exactly
\* one end_list_item before the next begin_list_item, and each list block is
\* closed by exactly one finalize_list before end_document.
C8_ListEventsMatched ==
    pc = "done" => ListScan(events, 1, "out") = "out"

\* A paragraph is open with nothing else open in it.
PlainParagraph ==
    /\ in_paragraph
    /\ procedural_stack = <<>>
    /\ in_definition = NoDefinition

\* C10: in every state an eols run of n >= 2 newlines has the effect of a
\* run of two (same events, same parser state).  In an open paragraph (no
\* emphasis open, outside definitions) that effect is exactly one
\* end_paragraph, no space and no other event, and the content that follows
\* opens exactly one paragraph.
C10_BlankLineRunsBreakOnce ==
    [][/\ \A nlcount \in 2..MaxNl, ahead \in Aheads :
              EolsToken(nlcount, ahead) =>
                  /\ Commit(OnEols(Self, lexpos, 2, ahead = "item", ahead = "def"))
                  /\ PlainParagraph =>
                         /\ pc' = "run"
                         /\ Emitted = <<Ev("end_paragraph")>>
                         /\ ~in_paragraph'
                         /\ UNCHANGED <<procedural_stack, current_heading_level,
                                        previous_list_item, current_list_item,
                                        tag_macro_stack, in_definition, current_list>>
       /\ (Word /\ peek \in Aheads /\ Last(events).name = "end_paragraph"
                /\ in_definition = NoDefinition) =>
              /\ Emitted = <<Ev("begin_paragraph"), EvText("word", "word")>>
              /\ in_paragraph']_vars

\* C10 witness: a word and then a run of blank lines; the run closed the
\* paragraph of the word.
C10_Witness ==
    /\ lexpos = 2
    /\ peek \in Aheads
    /\ pc = "run"
    /\ ~in_paragraph
    /\ Names(events) = <<"begin_document", "begin_paragraph", "word", "end_paragraph">>

EmphasisKinds == {"bold", "italic", "bolditalic"}

\* The step that consumes an emphasis marker of the given kind.
MarkerStep(kind) ==
    CASE kind = "bold" -> Bold
      [] kind = "italic" -> Italic
      [] kind = "bolditalic" -> Bolditalic

\* The events of an opening and of a closing marker of each kind.
Opening ==
    [bold |-> <<Ev("begin_bold")>>,
     italic |-> <<Ev("begin_italic")>>,
     bolditalic |-> <<Ev("begin_bold"), Ev("begin_italic")>>]

Closing ==
    [bold |-> <<Ev("end_bold")>>,
     italic |-> <<Ev("end_italic")>>,
     bolditalic |-> <<Ev("end_italic"), Ev("end_bold")>>]

\* The last n events of evs.
LastEvents(evs, n) == SubSeq(evs, Len(evs) - n + 1, Len(evs))

\* C11: when an emphasis marker, a word and the same marker again have been
\* read starting from an empty procedural stack (the opening marker pushed
\* one entry), the closing marker pops that entry and the stream ends with
\* begin_bold, word, end_bold for bold, with begin_italic, word, end_italic
\* for italic and with begin_bold, begin_italic, word, end_italic, end_bold
\* for bold-italic; the procedural stack is empty again.
C11_EmphasisRoundTrip ==
    [][\A kind \in EmphasisKinds :
          (/\ MarkerStep(kind)
           /\ procedural_stack = <<ProceduralStart(kind, self_location(lexpos - 2))>>
           /\ Last(events) = EvText("word", "word")) =>
              /\ pc' = "run"
              /\ procedural_stack' = <<>>
              /\ Emitted = Closing[kind]
              /\ LastEvents(events', 2 * Len(Opening[kind]) + 1) =
                     Opening[kind] \o <<EvText("word", "word")>> \o Closing[kind]]_vars

\* C11 witness: bold-italic marker, word, bold-italic marker were read from
\* an empty stack and the stack is empty again.
C11_Witness ==
    /\ pc = "run"
    /\ lexpos = 3
    /\ procedural_stack = <<>>
    /\ Names(events) = <<"begin_document", "begin_paragraph", "begin_bold", "begin_italic",
                         "word", "end_italic", "end_bold">>

\* An emphasis of this kind is open, with another one opened after it on top.
OpenBelowTop(stack, kind) ==
    /\ \E i \in 1..Len(stack) : stack[i].name = kind
    /\ Last(stack).name # kind

\* C12: an emphasis marker of kind K that arrives while an emphasis of kind K
\* is open below the top of the procedural stack is a mismatched close: parse
\* fails with a ParseError located at the start of the construct on top of
\* the stack; and the stack never holds two entries of one kind.
C12_MismatchedCloseFails ==
    [][/\ \A kind \in EmphasisKinds :
              (MarkerStep(kind) /\ OpenBelowTop(procedural_stack, kind)) =>
                  /\ pc' = "error"
                  /\ error'.exc = "ParseError"
                  /\ error'.location = Last(procedural_stack).location
       /\ \A i, j \in 1..Len(procedural_stack') :
              i # j => procedural_stack'[i].name # procedural_stack'[j].name]_vars

\* The step raised a ParseError, emitted nothing and left the active
\* heading as it was.
RejectedAsHeadingError ==
    /\ pc' = "error"
    /\ error'.exc = "ParseError"
    /\ Emitted = <<>>
    /\ UNCHANGED current_heading_level

\* C13: a heading start while a heading is open, a heading end while no
\* heading is open, and a heading end whose delimiter length differs from
\* the open heading's level each make parse fail with a ParseError, with no
\* begin_heading or end_heading emitted for the token and the active heading
\* unchanged.
C13_HeadingErrors ==
    [][/\ (HeadingStart /\ current_heading_level # None) => RejectedAsHeadingError
       /\ \A level \in Levels :
              (/\ HeadingEndToken(level)
               /\ \/ current_heading_level = None
                  \/ current_heading_level[1] # level) => RejectedAsHeadingError]_vars

\* C13 witness: a heading end of another level than the open heading's was
\* rejected.
C13_Witness ==
    /\ pc = "error"
    /\ error.msg = "Heading level mismatch"
    /\ current_heading_level # None
    /\ Count(events, "end_heading") = 0

\* The source ends behind the text the tokenizer has before it after the
\* step.
SourceEnds == remainder' # <<>> /\ Last(remainder') = EndOfSource

\* The text the tokenizer has before it after the step.
TextLeft ==
    IF SourceEnds THEN SubSeq(remainder', 1, Len(remainder') - 1) ELSE remainder'

\* The texts that can have followed an opening tag read in this step: the
\* units the cursor moved over behind the tag, then the text the tokenizer
\* has before it afterwards.
TagTexts(name) ==
    {prefix \o TextLeft : prefix \in Texts(lexpos' - lexpos - 1, name)}

\* The parser's own state: everything but the event stream and the cursor.
ParserState ==
    <<procedural_stack, current_heading_level, previous_list_item, current_list_item,
      tag_macro_stack, in_definition, in_paragraph>>

\* The macro call was not rejected for its placement.
PlacementAccepted == error'.exc # "UnsuitableMacro"

\* C14: when the raw macro <pre> is opened and </pre> occurs in the text
\* after the tag, parse goes on, exactly one event is emitted, it is
\* process_raw_macro, and its source is the text up to the first </pre>
\* (a prefix of the text that holds no </pre> and is followed by one); the
\* cursor stands right behind that end tag, the tokenizer goes on with the
\* text behind it, and the procedural stack, the heading, list, definition
\* and paragraph state and the tag-macro stack are unchanged.
C14_RawMacroExtraction ==
    [][\A at_end \in {SourceEnds} :
         \A text \in TagTexts("pre") :
            (/\ HtmltagStartToken("pre", text, at_end)
             /\ \E i \in 1..Len(text) : text[i] = end_tag("pre")
             /\ PlacementAccepted) =>
                /\ pc' = "run"
                /\ Len(Emitted) = 1
                /\ Emitted[1].name = "process_raw_macro"
                /\ Emitted[1].arg = "pre"
                /\ LET source == Emitted[1].source
                       n == Len(source)
                   IN  /\ n < Len(text)
                       /\ source = SubSeq(text, 1, n)
                       /\ \A i \in 1..n : source[i] # end_tag("pre")
                       /\ text[n + 1] = end_tag("pre")
                       /\ lexpos' = lexpos + 1 + n + 1
                       /\ remainder' = SubSeq(text, n + 2, Len(text))
                                           \o (IF at_end THEN <<EndOfSource>> ELSE <<>>)
                /\ UNCHANGED ParserState]_vars

\* C14 witness: <pre> was followed by a bold marker, </pre> and a second
\* </pre>; the marker became the source of the raw macro, nothing was
\* opened, and the tokenizer stands before the second </pre>.
C14_Witness ==
    /\ pc = "run"
    /\ Last(events) = EvRaw("process_raw_macro", "pre", <<BoldUnit>>)
    /\ procedural_stack = <<>>
    /\ lexpos = 3
    /\ remainder = <<end_tag("pre"), EndOfSource>>

\* The source units a step takes besides its token: the source of a raw
\* macro and its end tag.
Extracted ==
    IF \E i \in 1..Len(Emitted) : Emitted[i].name = "process_raw_macro"
    THEN Len(Emitted[Len(Emitted)].source) + 1
    ELSE 0

\* C15: the cursor never decreases; every step that reads a token moves it
\* forward, to the offset right behind the token or, when the token opens a
\* raw macro, right behind the macro's source and end tag, so that each
\* offset is taken once; only a raw-macro extraction moves it by more than
\* the token.
C15_CursorOnlyForward ==
    [][/\ lexpos' >= lexpos
       /\ ~DocumentEnd =>
              /\ lexpos' > lexpos
              /\ lexpos' = lexpos + 1 + Extracted
       /\ DocumentEnd => lexpos' = lexpos]_vars

\* C15 witness: a raw macro with a source of one unit was extracted from
\* offset 0 and the newline behind its end tag was read from offset 3.
C15_Witness ==
    /\ pc = "run"
    /\ lexpos = 4
    /\ Len(events) = 3
    /\ events[2] = EvRaw("process_raw_macro", "pre", <<WordUnit>>)
    /\ events[3] = EvText("other_characters", " ")

\* C16: begin_document is the first event; the parse has completed exactly
\* when end_document was emitted, which happens once, as the last event and
\* with no error raised; a parse that raised an error has emitted no
\* end_document, and a parse that has completed or failed takes no further
\* step, so that nothing is emitted after an error.
C16_AllOrError ==
    [][/\ pc = "run"
       /\ events'[1] = Ev("begin_document")
       /\ Count(events', "begin_document") = 1
       /\ pc' = "done" <=> Count(events', "end_document") = 1
       /\ pc' # "done" => Count(events', "end_document") = 0
       /\ pc' = "done" => Last(events').name = "end_document" /\ error' = NoError
       /\ pc' = "error" <=> error' # NoError
       /\ DocumentEnd => pc' \in {"done", "error"}]_vars

\* C16 witness: a parse failed on an unknown macro after it had emitted
\* events for earlier tokens.
C16_Witness ==
    /\ pc = "error"
    /\ error.exc = "UnknownMacro"
    /\ Len(events) >= 3
    /\ Count(events, "end_document") = 0

\* C17: no parse ends in an InternalError; an input that is rejected is
\* rejected with another error (a ParseError for a malformed list or
\* definition list).
C17_NoInternalError ==
    pc = "error" => error.exc # "InternalError"

\* The text after the tag runs to the end of the tag's line with nothing
\* but blanks, if anything, on the way.
FollowedByLineEnd(text) ==
    \/ text # <<>> /\ text[1] = NewlineUnit
    \/ Len(text) >= 2 /\ text[1] = BlankUnit /\ text[2] = NewlineUnit

\* The tag's line ends with the closing tag </name>.
ClosedAtLineEnd(name, text) ==
    \E i \in 1..Len(text) :
        /\ text[i] = end_tag(name)
        /\ \A j \in 1..(i - 1) : text[j] # NewlineUnit
        /\ i = Len(text) \/ text[i + 1] = NewlineUnit

\* The first thing after the tag is the end of its line or the closing tag
\* </name>.
ImmediatelyFollowed(name, text) ==
    text # <<>> /\ text[1] \in {NewlineUnit, end_tag(name)}

\* Macros that accept the block placement only: a tag macro and a raw macro.
BlockOnly == {"blockquote", "pre"}

\* C18 as stated: the placement inferred for an opening tag is block if and
\* only if the tag stands at the start of its line (or of the source) and
\* is immediately followed by the end of the line or by its own closing
\* tag; it is inline in every other case.  Seen on the macros that accept
\* block only: they are instantiated (as block) in the first case and
\* rejected as unsuitable in every other.
C18_BlockIffImmediatelyFollowed ==
    [][\A name \in BlockOnly, at_end \in {SourceEnds} :
         \A text \in TagTexts(name) :
            HtmltagStartToken(name, text, at_end) =>
                IF bol /\ ImmediatelyFollowed(name, text)
                THEN /\ error'.exc # "UnsuitableMacro"
                     /\ name = "blockquote" =>
                            /\ pc' = "run"
                            /\ Last(tag_macro_stack').environment = "block"
                ELSE /\ pc' = "error"
                     /\ error'.exc = "UnsuitableMacro"
                     /\ Emitted = <<>>]_vars

\* C18 amended: the placement inferred for an opening tag is block if and
\* only if the tag stands at the start of its line (or of the source) and
\* either nothing but blanks stands between it and the newline that ends
\* its line, or the rest of its line ends with its own closing tag,
\* whatever stands between the two; it is inline otherwise, also for a tag
\* that ends a source without trailing newline and for a tag whose closing
\* tag has more text behind it on the line.  Seen on the macros that accept
\* block only: they are instantiated (as block) in the first case and
\* rejected as unsuitable in every other.
C18_PlacementInference ==
    [][\A name \in BlockOnly, at_end \in {SourceEnds} :
         \A text \in TagTexts(name) :
            HtmltagStartToken(name, text, at_end) =>
                IF bol /\ (FollowedByLineEnd(text) \/ ClosedAtLineEnd(name, text))
                THEN /\ error'.exc # "UnsuitableMacro"
                     /\ name = "blockquote" =>
                            /\ pc' = "run"
                            /\ Last(tag_macro_stack').environment = "block"
                ELSE /\ pc' = "error"
                     /\ error'.exc = "UnsuitableMacro"
                     /\ Emitted = <<>>]_vars

\* C18 witness: <blockquote> at the start of the source, followed by blanks
\* and the end of the line, was placed as block.
C18_Witness ==
    /\ pc = "run"
    /\ lexpos = 1
    /\ tag_macro_stack = <<[name |-> "blockquote", environment |-> "block", lexpos |-> 0]>>
    /\ remainder = <<BlankUnit, NewlineUnit>>

\* The placement inferred from the text around the tag is block.
AloneOnLine(name, text) ==
    bol /\ (FollowedByLineEnd(text) \/ ClosedAtLineEnd(name, text))

\* No paragraph is opened here: content belongs to a list item, a heading
\* or a definition term or definition.
ParagraphExcluded ==
    \/ current_list_item # None
    \/ current_heading_level # None
    \/ in_definition \in {"term", "def"}

\* C19: a macro that rejects the inferred block placement (the inline-only
\* macro s) is instantiated as inline after a paragraph was opened, when
\* none was open and none is excluded, and the parse does not fail; a macro
\* that rejects the inferred inline placement (blockquote, pre) makes parse
\* fail at once with UnsuitableMacro at the token's location, with no event
\* emitted and no state changed.
C19_PlacementFallback ==
    [][\A name \in MacroNames, at_end \in {SourceEnds} :
         \A text \in TagTexts(name) :
            HtmltagStartToken(name, text, at_end) =>
                /\ (AloneOnLine(name, text) /\ MacroLibrary[name].context = "inline") =>
                       /\ pc' = "run"
                       /\ Last(tag_macro_stack').environment = "inline"
                       /\ in_paragraph' = (in_paragraph \/ ~ParagraphExcluded)
                       /\ Emitted = (IF in_paragraph' /\ ~in_paragraph
                                     THEN <<Ev("begin_paragraph")>>
                                     ELSE <<>>) \o <<EvMacro("begin_tag_macro", name)>>
                /\ (~AloneOnLine(name, text) /\ MacroLibrary[name].context = "block") =>
                       /\ pc' = "error"
                       /\ error'.exc = "UnsuitableMacro"
                       /\ error'.location = lexpos
                       /\ Emitted = <<>>
                       /\ UNCHANGED ParserState]_vars

\* C19 witness: <s> alone on the first line was rejected as block, a
\* paragraph was opened and the macro instantiated as inline.
C19_Witness ==
    /\ pc = "run"
    /\ lexpos = 1
    /\ in_paragraph
    /\ Names(events) = <<"begin_document", "begin_paragraph", "begin_tag_macro">>
    /\ tag_macro_stack = <<[name |-> "s", environment |-> "inline", lexpos |-> 0]>>
    /\ remainder = <<NewlineUnit>>

\* The begin_tag_macro and end_tag_macro events of evs.
TagEvents(evs) ==
    SelectSeq(evs, LAMBDA e : e.name \in {"begin_tag_macro", "end_tag_macro"})

\* The closing tag names the macro on top of the tag-macro stack.
ClosesTop(tag) ==
    tag_macro_stack # <<>> /\ Last(tag_macro_stack).name = tag

\* C20: a closing tag whose name is that of the macro on top of the
\* tag-macro stack pops exactly that entry and emits end_tag_macro for it
\* (unless the paragraph break of a block macro finds an emphasis or a
\* heading unterminated); a closing tag that finds the stack empty or
\* another name on top fails with a ParseError naming the tag or the open
\* macro, and emits nothing; end_tag_macro is emitted by no other step, and
\* the begin_tag_macro and end_tag_macro events are LIFO-nested among
\* themselves.
C20_TagMacroClosing ==
    [][/\ \A tag \in TagNames :
              HtmltagEndToken(tag) =>
                  IF ClosesTop(tag)
                  THEN \/ /\ pc' = "run"
                          /\ tag_macro_stack' =
                                 SubSeq(tag_macro_stack, 1, Len(tag_macro_stack) - 1)
                          /\ Count(Emitted, "end_tag_macro") = 1
                          /\ Last(Emitted) = EvMacro("end_tag_macro", tag)
                       \/ /\ pc' = "error"
                          /\ Last(tag_macro_stack).environment = "block"
                          /\ procedural_stack # <<>> \/ current_heading_level # None
                          /\ error'.msg \in {"Unterminated procedural", "Unterminated heading"}
                          /\ Emitted = <<>>
                  ELSE /\ pc' = "error"
                       /\ error'.exc = "ParseError"
                       /\ error'.msg = (IF tag_macro_stack = <<>>
                                        THEN "Cannot close macro; not opened."
                                        ELSE "Macro nesting error")
                       /\ error'.name = (IF tag_macro_stack = <<>>
                                         THEN tag
                                         ELSE Last(tag_macro_stack).name)
                       /\ Emitted = <<>>
       /\ Count(Emitted, "end_tag_macro") > 0 => \E tag \in TagNames : HtmltagEndToken(tag)
       /\ WellNested(TagEvents(events'))]_vars

\* C20 witness: with two tag macros open, a closing tag for the outer one
\* was rejected.
C20_Witness ==
    /\ pc = "error"
    /\ error.msg = "Macro nesting error"
    /\ Count(events, "begin_tag_macro") = 2
    /\ Count(events, "end_tag_macro") = 0

\* The macro events of a stream.
MacroEventNames ==
    {"begin_tag_macro", "end_tag_macro", "process_raw_macro", "process_link_macro"}

MacroEvents(evs) == SelectSeq(evs, LAMBDA ev : ev.name \in MacroEventNames)

\* The parts joined by "|".
RECURSIVE JoinedByPipe(_)
JoinedByPipe(parts) ==
    IF Len(parts) = 1
    THEN parts[1]
    ELSE parts[1] \o <<"|">> \o JoinedByPipe(Tail(parts))

\* list holds the positional parameters of the parameter string: nothing
\* for no parameters, else the pieces between the pipes, in order.
PipeSplit(list, params) ==
    IF params = <<>>
    THEN list = <<>>
    ELSE /\ list # <<>>
         /\ \A i \in 1..Len(list) : \A j \in 1..Len(list[i]) : list[i][j] # "|"
         /\ JoinedByPipe(list) = params

\* The text between [[ and ]] has the form name:params of a bracket-syntax
\* macro call.
IsMacroCall(content) == Len(content) >= 2 /\ content[2] = ":"

\* C21: a bracket-syntax call of a macro that is no Link macro fails with
\* UnsuitableMacro and emits no macro event; a call of a Link macro goes on
\* with exactly one more macro event, process_link_macro for that macro
\* with the pipe-split parameters (none for an empty parameter string), the
\* tag-macro stack unchanged and the cursor right behind the token.
C21_LinkProtocol ==
    [][\A content \in LinkContents :
         (LinkToken(content) /\ IsMacroCall(content) /\ content[1] \in MacroNames) =>
            IF MacroLibrary[content[1]].protocol # "link"
            THEN /\ pc' = "error"
                 /\ error'.exc = "UnsuitableMacro"
                 /\ MacroEvents(events') = MacroEvents(events)
            ELSE /\ pc' = "run"
                 /\ Len(MacroEvents(events')) = Len(MacroEvents(events)) + 1
                 /\ Last(events').name = "process_link_macro"
                 /\ Last(events').arg = content[1]
                 /\ PipeSplit(Last(events').params, Drop(content, 2))
                 /\ tag_macro_stack' = tag_macro_stack
                 /\ lexpos' = lexpos + 1]_vars

\* C22: a definition marker (a colon at a line start) read while no
\* definition context is open makes parse fail with a ParseError located at
\* the marker, with no event emitted and the definition mode unchanged; in
\* every other mode it emits begin_definition_def, and nothing else, and the
\* mode becomes def.
C22_DefinitionNeedsContext ==
    [][(TextToken(":") /\ bol) =>
         IF in_definition = NoDefinition
         THEN /\ pc' = "error"
              /\ error'.exc = "ParseError"
              /\ error'.location = lexpos
              /\ events' = events
              /\ in_definition' = NoDefinition
         ELSE /\ pc' = "run"
              /\ events' = Append(events, Ev("begin_definition_def"))
              /\ in_definition' = "def"]_vars

\* The step calls paragraph_break(): a blank-line run outside list items
\* and definitions, a heading start, a list item, the closing tag of the
\* block tag macro on top of the stack, a comment with a blank-line run
\* before or after it, or the end of the document.
BreakAttempted ==
    \/ \E nlcount \in 2..MaxNl, ahead \in Aheads :
          /\ EolsToken(nlcount, ahead)
          /\ in_definition \notin {"term", "def"}
          /\ current_list_item = None
    \/ HeadingStart
    \/ ListItem
    \/ \E tag \in TagNames :
          /\ HtmltagEndToken(tag)
          /\ tag_macro_stack # <<>>
          /\ Last(tag_macro_stack).name = tag
          /\ Last(tag_macro_stack).environment = "block"
    \/ \E start_ws \in CommentWs, end_ws \in CommentWs :
          /\ CommentToken(start_ws, end_ws)
          /\ IsParagraphBreak(start_ws) \/ IsParagraphBreak(end_ws)
    \/ DocumentEnd

\* C23: a paragraph break attempted while an emphasis or a heading is open
\* raises an "Unterminated ..." ParseError and emits no end_paragraph; the
\* error is located where the open construct started: at the location of
\* the top entry of the procedural stack for an emphasis, at the heading's
\* own start location for a heading.
C23_UnterminatedAtConstructStart ==
    [][(BreakAttempted /\ (procedural_stack # <<>> \/ current_heading_level # None)) =>
         /\ pc' = "error"
         /\ error'.exc = "ParseError"
         /\ error'.msg \in {"Unterminated procedural", "Unterminated heading"}
         /\ Count(Emitted, "end_paragraph") = 0
         /\ IF error'.msg = "Unterminated heading"
            THEN /\ current_heading_level # None
                 /\ error'.location = current_heading_level[2]
            ELSE /\ procedural_stack # <<>>
                 /\ error'.location = Last(procedural_stack).location]_vars

\* The step ends the open list item and, if ends, the list block with it;
\* otherwise the block goes on and the item's signature is remembered.
ListItemEnded(ends) ==
    IF ends
    THEN /\ Names(Emitted) = <<"end_list_item", "finalize_list">>
         /\ previous_list_item' = None
         /\ current_list_item' = None
    ELSE /\ Names(Emitted) = <<"end_list_item">>
         /\ previous_list_item' = current_list_item
         /\ current_list_item' = None

\* C24: at an eols token read while a list item is open,
\* end_list_item is emitted, and the block is ended (finalize_list, both
\* signatures cleared) exactly if the token is a blank-line run or the next
\* line starts with neither a list item marker nor a definition marker.
C24_BlockEndsUnlessItemOrDefinitionFollows ==
    [][\A nlcount \in 1..MaxNl, ahead \in Aheads :
         (EolsToken(nlcount, ahead) /\ current_list_item # None) =>
            /\ pc' = "run"
            /\ ListItemEnded(nlcount > 1 \/ ahead = "other")]_vars

----------------------------------------------------------------------------
(* The list assembler on its own: HTMLCompiler.begin_list_item called with  *)
(* the signatures of one list block, which satisfy both signature           *)
(* invariants.                                                              *)

\* signature may follow previous in a block: at most one level deeper, the
\* same markers within the shared prefix; the first is one marker long.
SignatureInvariants(previous, signature) ==
    IF previous = None
    THEN Len(signature) = 1
    ELSE /\ Len(signature) <= Len(previous) + 1
         /\ ~SharedPrefixDiffers(previous, signature)

\* compiler.begin_list_item(signature) on an HTMLCompiler
BeginListItemCall(signature) ==
    /\ pc = "run"
    /\ Count(events, "begin_list_item") < MaxItems
    /\ SignatureInvariants(PreviousItemOfBlock(events), signature)
    /\ Commit(CompilerBeginListItem(Self, signature, lexpos))
    /\ UNCHANGED <<lexpos, bol, peek, last_token, remainder>>

\* compiler.finalize_list() on an HTMLCompiler, at the end of a block
FinalizeListCall ==
    /\ pc = "run"
    /\ current_list # None
    /\ Commit(CompilerFinalizeList(Self))
    /\ UNCHANGED <<lexpos, bol, peek, last_token, remainder>>

InitAssembler == Start({"html"})

NextAssembler ==
    \/ \E signature \in Signatures : BeginListItemCall(signature)
    \/ FinalizeListCall

SpecAssembler == InitAssembler /\ [][NextAssembler]_vars

\* The List node the signature leads to: from list, along the last
\* children, one level per marker after the first.
RECURSIVE NodeFor(_, _)
NodeFor(list, signature) ==
    IF Len(signature) = 1
    THEN list
    ELSE NodeFor(Last(list.items), Tail(signature))

\* The marker types from list down to the node the signature leads to spell
\* the signature, and that node ends with an Item.
RECURSIVE SpelledBy(_, _)
SpelledBy(list, signature) ==
    /\ list.type = signature[1]
    /\ list.items # <<>>
    /\ IF Len(signature) = 1
       THEN Last(list.items).type = "Item"
       ELSE SpelledBy(Last(list.items), Tail(signature))

RECURSIVE Lists(_)
\* Number of List nodes of a tree.
Lists(node) ==
    IF node.type = "Item"
    THEN 0
    ELSE LET sub[i \in 0..Len(node.items)] ==
                 IF i = 0 THEN 0 ELSE sub[i - 1] + Lists(node.items[i])
         IN  1 + sub[Len(node.items)]

\* new is old grown at its end: every node of old is still there with its
\* marker type and its children in order, and whatever is new stands after
\* the last child of a node on the path of last children.
RECURSIVE GrownFrom(_, _)
GrownFrom(new, old) ==
    /\ new.type = old.type
    /\ Len(new.items) >= Len(old.items)
    /\ \A i \in 1..(Len(old.items) - 1) : new.items[i] = old.items[i]
    /\ old.items # <<>> =>
          LET n == Len(old.items)
          IN  IF old.items[n].type = "Item"
              THEN new.items[n] = old.items[n]
              ELSE GrownFrom(new.items[n], old.items[n])

\* C25: for the signatures of a block that satisfy both invariants,
\* begin_list_item(s) fails no assertion and appends one new Item as the
\* last child of the List node at depth Len(s) whose chain of ancestor
\* marker types spells s; it creates at most one List node, and every node
\* that was there before keeps its marker type and its children.
C25_ListTreeAssembly ==
    [][\A signature \in Signatures :
         BeginListItemCall(signature) =>
            /\ pc' = "run"
            /\ current_list' # None
            /\ LET new == current_list'[1].root[1]
               IN  /\ SpelledBy(new, signature)
                   /\ IF current_list = None
                      THEN Lists(new) = 1 /\ Items(new) = 1
                      ELSE LET old == current_list[1].root[1]
                           IN  /\ Items(new) = Items(old) + 1
                               /\ Lists(new) <= Lists(old) + 1
                               /\ GrownFrom(new, old)]_vars

\* C25 witness: the block *, *#, * has been assembled: a bullet list of an
\* item, a numbered list of one item inside it, and a second item.
C25_Witness ==
    /\ pc = "run"
    /\ current_list # None
    /\ current_list[1].root[1] =
          [type |-> "*",
           items |-> <<Item(1), [type |-> "#", items |-> <<Item(2)>>], Item(3)>>]

\* The heading events of a stream.
HeadingEvents(evs) == SelectSeq(evs, LAMBDA ev : ev.name \in {"begin_heading", "end_heading"})

\* C26: in the event stream begin_heading and end_heading alternate,
\* starting with begin_heading, and each end_heading carries the level of
\* the begin_heading right before it.
C26_HeadingsAlternate ==
    LET h == HeadingEvents(events)
    IN  \A i \in 1..Len(h) :
            IF i % 2 = 1
            THEN h[i].name = "begin_heading"
            ELSE /\ h[i].name = "end_heading"
                 /\ h[i].level = h[i - 1].level

\* C26 witness: a heading of level 2 was begun, got a word and was ended.
C26_Witness ==
    /\ pc = "run"
    /\ Names(events) = <<"begin_document", "begin_heading", "word", "end_heading">>
    /\ events[2].level = 2
    /\ events[4].level = 2

\* The macros of the Raw protocol.
RawMacros == {name \in MacroNames : MacroLibrary[name].protocol = "raw"}

\* C27: when a raw macro is opened (its placement is accepted) and its end
\* tag occurs nowhere in the rest of the source, parse fails with ParseError
\* "Unterminated macro" located at the opening tag, no event is emitted,
\* the cursor stays right behind the opening tag and the tag-macro stack is
\* unchanged.
C27_UnterminatedRawMacro ==
    [][\A name \in RawMacros, at_end \in {SourceEnds} :
         \A text \in TagTexts(name) :
            (/\ HtmltagStartToken(name, text, at_end)
             /\ \A i \in 1..Len(text) : text[i] # end_tag(name)
             /\ PlacementAccepted) =>
                /\ at_end
                /\ pc' = "error"
                /\ error'.exc = "ParseError"
                /\ error'.msg = "Unterminated macro"
                /\ error'.location = lexpos
                /\ events' = events
                /\ lexpos' = lexpos + 1
                /\ remainder' = text \o <<EndOfSource>>
                /\ tag_macro_stack' = tag_macro_stack]_vars

\* C27 witness: <pre> at the start of the second line, followed by a line
\* end and the end of the source, was rejected as unterminated.
C27_Witness ==
    /\ pc = "error"
    /\ error.msg = "Unterminated macro"
    /\ error.location = 1
    /\ lexpos = 2
    /\ remainder = <<NewlineUnit, EndOfSource>>

\* C28: every token step and every raw extraction moves the cursor forward,
\* and parse comes to an end: it emits end_document or raises an error.
C28_Terminates ==
    /\ [][pc' = "run" => lexpos' > lexpos]_vars
    /\ <>(\/ pc = "done" /\ Last(events).name = "end_document"
          \/ pc = "error" /\ error # NoError)

\* C28 witness: a parse with a raw extraction over three units came to its
\* end.
C28_Witness ==
    /\ pc = "done"
    /\ Last(events).name = "end_document"
    /\ Count(events, "process_raw_macro") = 1
    /\ lexpos = 3
    /\ last_token = 0

\* The paragraph events of a stream.
ParagraphEvents(evs) ==
    SelectSeq(evs, LAMBDA ev : ev.name \in {"begin_paragraph", "end_paragraph"})

\* C29: in the event stream begin_paragraph and end_paragraph alternate,
\* starting with begin_paragraph; in_paragraph is true exactly while the
\* last of them is a begin_paragraph; and no paragraph is open while a list
\* item, a heading or a definition term or def is open.
C29_ParagraphInvariant ==
    LET p == ParagraphEvents(events)
    IN  /\ \A i \in 1..Len(p) :
              p[i].name = IF i % 2 = 1 THEN "begin_paragraph" ELSE "end_paragraph"
        /\ in_paragraph <=> Len(p) % 2 = 1
        /\ in_paragraph =>
              /\ current_list_item = None
              /\ current_heading_level = None
              /\ in_definition \notin {"term", "def"}

\* C29 witness: the paragraph a word had opened was closed by the list item
\* on the next line, which is open now.
C29_Witness ==
    /\ pc = "run"
    /\ current_list_item # None
    /\ ~in_paragraph
    /\ Names(events) = <<"begin_document", "begin_paragraph", "word", "other_characters",
                         "end_paragraph", "begin_list_item">>

\* The signatures of the begin_list_item calls since the last finalize_list.
RECURSIVE BlockSignatures(_)
BlockSignatures(evs) ==
    IF evs = <<>> \/ Last(evs).name = "finalize_list"
    THEN <<>>
    ELSE LET before == BlockSignatures(SubSeq(evs, 1, Len(evs) - 1))
         IN  IF Last(evs).name = "begin_list_item"
             THEN Append(before, Last(evs).sig)
             ELSE before

\* The marker a list tag stands for.
MarkerOf(tag) == IF tag = "ul" THEN "*" ELSE IF tag = "ol" THEN "#" ELSE "?"

\* The markers of the lists open in a stack of open tags, outermost first.
RECURSIVE OpenMarkers(_)
OpenMarkers(stack) ==
    IF stack = <<>>
    THEN <<>>
    ELSE LET before == OpenMarkers(SubSeq(stack, 1, Len(stack) - 1))
         IN  IF Last(stack) = "li" THEN before ELSE Append(before, MarkerOf(Last(stack)))

NotNested == [ok |-> FALSE, items |-> <<>>]

\* Reads the writer calls out[i..] with the tags open before them: ok says
\* that every close closes the tag opened last, that an li is opened in a
\* list only, that a list is opened either first of all or in an li right
\* after the contents of its item, that an item's contents come right after
\* its li was opened, and that no tag is left open; items are the buffers
\* printed, in order, each with the markers of the lists open around it.
RECURSIVE Scan(_, _, _, _)
Scan(out, i, stack, items) ==
    IF i > Len(out)
    THEN [ok |-> stack = <<>> /\ out # <<>>, items |-> items]
    ELSE LET c == out[i]
             top == IF stack = <<>> THEN "" ELSE Last(stack)
         IN  CASE c.op = "open" /\ c.tag = "li" ->
                    IF top \in {"ul", "ol"}
                    THEN Scan(out, i + 1, Append(stack, "li"), items)
                    ELSE NotNested
               [] c.op = "open" /\ c.tag # "li" ->
                    IF \/ i = 1
                       \/ /\ top = "li"
                          /\ i > 2
                          /\ out[i - 1].op = "print_line"
                          /\ out[i - 2].op = "print"
                    THEN Scan(out, i + 1, Append(stack, c.tag), items)
                    ELSE NotNested
               [] c.op = "close" ->
                    IF top = c.tag
                    THEN Scan(out, i + 1, SubSeq(stack, 1, Len(stack) - 1), items)
                    ELSE NotNested
               [] c.op = "print" ->
                    IF top = "li" /\ out[i - 1] = WriterOpen("li")
                    THEN Scan(out, i + 1, stack,
                              Append(items, [output |-> c.output,
                                             signature |-> OpenMarkers(stack)]))
                    ELSE NotNested
               [] c.op = "print_line" -> Scan(out, i + 1, stack, items)

\* C30: for the list tree built from the signatures of a block that satisfy
\* both invariants, finalize writes a balanced, properly nested sequence of
\* tags: every close closes the tag opened last and none is left open, each
\* list opens ul for "*" and ol for "#", a nested list is opened inside the
\* li of the item right before it, and the items' buffers are printed once
\* each in the order of the begin_list_item calls, each inside the lists
\* its signature spells.
C30_ListRendering ==
    [][FinalizeListCall =>
          LET out == SubSeq(list_output', Len(list_output) + 1, Len(list_output'))
              r == Scan(out, 1, <<>>, <<>>)
              signatures == BlockSignatures(events)
          IN  /\ pc' = "run"
              /\ current_list' = None
              /\ r.ok
              /\ Len(r.items) = Len(signatures)
              /\ \A k \in 1..Len(signatures) :
                    /\ r.items[k].output = k
                    /\ r.items[k].signature = signatures[k]]_vars

\* C30 witness: the block *, *#, * has been finalized: the numbered list of
\* the second item was written inside the li of the first.
C30_Witness ==
    /\ pc = "run"
    /\ current_list = None
    /\ list_output =
          <<WriterOpen("ul"),
            WriterOpen("li"), WriterPrint(1), WriterPrintLine,
            WriterOpen("ol"), WriterOpen("li"), WriterPrint(2), WriterClose("li"),
            WriterClose("ol"), WriterClose("li"),
            WriterOpen("li"), WriterPrint(3), WriterClose("li"),
            WriterClose("ul")>>

====
